---- MODULE Spec2Model ----
(***************************************************************************)
(* Model of the transcript parsers of @agentwatch/parsing: the per-format  *)
(* entry classifiers (Claude, Codex, Gemini), the pagination orchestrators *)
(* parse*Entries and the metadata summarizers parse*Transcript.            *)
(*                                                                         *)
(* A JSONL file is a sequence of lines; a line is blank, undecodable text, *)
(* the JSON value null, or a JSON object.  A Gemini file is one JSON       *)
(* document.  The byte size of a file is an input of its own, because the  *)
(* byte length of a record is not modelled.  ISO timestamps are modelled   *)
(* as milliseconds since the epoch.                                        *)
(***************************************************************************)
EXTENDS Integers, Sequences, FiniteSets, TLC

VARIABLES file, clock, pc, call, result, prev, issues, pager, reader, logger

vars ==
  <<file, clock, pc, call, result, prev, issues, pager, reader, logger>>

(***************************************************************************)
(* Bounds of the model.                                                    *)
(***************************************************************************)
MaxLines == 3
MaxOffset == 2
MaxLimit == 2
MaxPad == 1
MaxChars == 4
MaxChunk == 2

(***************************************************************************)
(* Program constants.                                                      *)
(***************************************************************************)
SMALL_FILE_THRESHOLD == 1024 * 1024
DEFAULT_MAX_JSON_FILE_BYTES == 50 * 1024 * 1024
DEFAULT_LIMIT == 500
Now0 == 1000

(***************************************************************************)
(* Optional values (undefined or a value) and JavaScript helpers.          *)
(***************************************************************************)
None == <<>>
Some(v) == <<v>>
IsSome(o) == Len(o) > 0
OrElse(o, d) == IF IsSome(o) THEN o[1] ELSE d

Max(a, b) == IF a >= b THEN a ELSE b
Min(a, b) == IF a <= b THEN a ELSE b

Undef == "undefined"

\* Array.prototype.slice(start, end): a negative index counts from the end.
JsSlice(s, start, end) ==
  LET n == Len(s)
      from == IF start < 0 THEN Max(n + start, 0) ELSE Min(start, n)
      to == IF end < 0 THEN Max(n + end, 0) ELSE Min(end, n)
  IN IF to <= from THEN <<>> ELSE SubSeq(s, from + 1, to)

\* The concatenation of a sequence of sequences (halving keeps it shallow).
RECURSIVE FlattenSeq(_)
FlattenSeq(ss) ==
  IF Len(ss) = 0 THEN <<>>
  ELSE IF Len(ss) = 1 THEN ss[1]
  ELSE LET h == Len(ss) \div 2
       IN FlattenSeq(SubSeq(ss, 1, h)) \o FlattenSeq(SubSeq(ss, h + 1, Len(ss)))

\* The entries a loop pushes: the outcomes that carry an entry, in order.
PushedEntries(outs) ==
  LET kept == SelectSeq(outs, LAMBDA o: IsSome(o.entry))
  IN [i \in 1..Len(kept) |-> kept[i].entry[1]]

LoggedIssues(outs) == FlattenSeq([i \in 1..Len(outs) |-> outs[i].log])

(***************************************************************************)
(* Decoded JSON values and lines of a JSONL file.                          *)
(***************************************************************************)
NullValue == [kind |-> "null"]

BlankLine == [kind |-> "blank", value |-> NullValue]
GarbageLine == [kind |-> "garbage", value |-> NullValue]
NullLine == [kind |-> "json", value |-> NullValue]
ObjectLine(obj) == [kind |-> "json", value |-> obj]

\* JSON.parse(line): throws on undecodable text, else the decoded value.
JSON_parse(line) ==
  IF line.kind = "json"
    THEN [ok |-> TRUE, value |-> line.value]
    ELSE [ok |-> FALSE, value |-> NullValue]

\* line.trim() is non-empty
IsNonBlank(line) == line.kind # "blank"

\* description holds the values a template literal interpolates; <<>> where
\* the text names no field of the record.
Issue(agent, issueType, entryIndex) ==
  [agent |-> agent, issueType |-> issueType, entryIndex |-> entryIndex,
   description |-> <<>>]

Described(issue, values) == [issue EXCEPT !.description = values]

\* schemaLogger?.log(...): nothing is logged without a logger
Log(hasLogger, issue) == IF hasLogger THEN <<issue>> ELSE <<>>

Outcome(entry, log) == [entry |-> entry, log |-> log]

Entry(id, timestamp, type, agent) ==
  [id |-> id, timestamp |-> timestamp, type |-> type, agent |-> agent,
   toolName |-> None, toolInput |-> None, toolCallId |-> None,
   tokens |-> None, raw |-> None]

\* What an extractToolInfo returns; a field that is not set is None.
ToolInfo(toolName, toolInput, toolCallId) ==
  [toolName |-> toolName, toolInput |-> toolInput, toolCallId |-> toolCallId]

\* { ...entry, ...extractToolInfo(...) }
WithTool(entry, info) ==
  [entry EXCEPT !.toolName = info.toolName, !.toolInput = info.toolInput,
                !.toolCallId = info.toolCallId]

\* entry._raw = <decoded record>
WithRaw(entry, value) == [entry EXCEPT !.raw = Some(value)]

(***************************************************************************)
(* Claude adapter.                                                         *)
(* A Claude object: type, role (obj.role ?? message.role), content         *)
(* (message.content ?? obj.content: None unless it is an array, else the   *)
(* sequence of its blocks' types), uuid, timestamp (ISO string) and ts     *)
(* (epoch seconds).                                                        *)
(***************************************************************************)
ClaudeObj(type, role, content, uuid, timestamp, ts) ==
  [kind |-> "object", type |-> type, role |-> role, content |-> content,
   uuid |-> uuid, timestamp |-> timestamp, ts |-> ts, summary |-> None,
   text |-> None]

\* A text: what it says and its length in characters.
Text(id, len) == [id |-> id, len |-> len]

\* String(text).slice(0, n)
SliceText(text, n) == [text EXCEPT !.len = Min(text.len, n)]

\* {"type":"summary","summary":"..."}
ClaudeSummary(text) ==
  [ClaudeObj("summary", Undef, None, Undef, Some(1), None)
     EXCEPT !.summary = Some(text)]

\* {"type":"user","message":{"role":"user","content":"..."}}
ClaudeUserMessage(text) ==
  [ClaudeObj("user", "user", None, Undef, Some(1), None)
     EXCEPT !.text = Some(text)]

HasBlock(blocks, t) == \E i \in 1..Len(blocks): blocks[i] = t

\* Faulty variant: one thinking block is enough for an assistant record to be
\* typed thinking.
ClaudeDetectEntryType_AnyThinking(obj) ==
  IF obj.type = "system" THEN "system"
  ELSE IF obj.type = "summary" THEN "summary"
  ELSE IF obj.type = "file-history-snapshot" THEN "system"
  ELSE IF obj.type = "user" \/ obj.role = "user" THEN
    IF IsSome(obj.content) /\ HasBlock(obj.content[1], "tool_result")
      THEN "tool_result" ELSE "user"
  ELSE IF obj.type = "assistant" \/ obj.role = "assistant" THEN
    IF IsSome(obj.content) /\ HasBlock(obj.content[1], "tool_use")
      THEN "tool_call"
    ELSE IF IsSome(obj.content) /\ HasBlock(obj.content[1], "thinking")
      THEN "thinking"
    ELSE "assistant"
  ELSE "unknown"

ClaudeDetectEntryType(obj) ==
  IF obj.type = "system" THEN "system"
  ELSE IF obj.type = "summary" THEN "summary"
  ELSE IF obj.type = "file-history-snapshot" THEN "system"
  ELSE IF obj.type = "user" \/ obj.role = "user" THEN
    IF IsSome(obj.content) /\ HasBlock(obj.content[1], "tool_result")
      THEN "tool_result" ELSE "user"
  ELSE IF obj.type = "assistant" \/ obj.role = "assistant" THEN
    IF IsSome(obj.content) /\ HasBlock(obj.content[1], "tool_use")
      THEN "tool_call"
    ELSE IF IsSome(obj.content)
            /\ \A i \in 1..Len(obj.content[1]): obj.content[1][i] = "thinking"
      THEN "thinking"
    ELSE "assistant"
  ELSE "unknown"

\* extractToolInfo: the first tool_use block gives name, input and id, else
\* the first tool_result block gives tool_use_id; the entry type is not
\* consulted.  A block carries the fields of its kind.
ClaudeExtractToolInfo(obj) ==
  IF IsSome(obj.content) /\ HasBlock(obj.content[1], "tool_use")
    THEN ToolInfo(Some("name"), Some("input"), Some("id"))
  ELSE IF IsSome(obj.content) /\ HasBlock(obj.content[1], "tool_result")
    THEN ToolInfo(None, None, Some("tool_use_id"))
  ELSE ToolInfo(None, None, None)

\* Faulty variant: the epoch-seconds field ts is not read.
ClaudeSourceTimestamp_IgnoreTs(obj) == obj.timestamp

\* obj.timestamp, else new Date(obj.ts * 1000).toISOString(), else undefined
ClaudeSourceTimestamp(obj) ==
  IF IsSome(obj.timestamp) THEN obj.timestamp
  ELSE IF IsSome(obj.ts) THEN Some(obj.ts[1] * 1000)
  ELSE None

ClaudeEntryId(obj, index) ==
  IF obj.uuid # Undef THEN obj.uuid ELSE "claude-" \o ToString(index)

\* Reading a property of null throws a TypeError, which the function's own
\* try/catch turns into a parse_error issue and a null result.
parseClaudeEntryObject(obj, index, now, hasLogger) ==
  IF obj.kind = "null"
    THEN Outcome(None, Log(hasLogger, Issue("claude", "parse_error", Some(index))))
    ELSE
      LET entryType == ClaudeDetectEntryType(obj)
          src == ClaudeSourceTimestamp(obj)
          missing == Log(hasLogger /\ ~IsSome(src),
                         Issue("claude", "missing_required_field", Some(index)))
          \* description: `Unknown entry type: ${obj.type}`
          unknown == Log(hasLogger /\ entryType = "unknown",
                         Described(Issue("claude", "unknown_entry_type",
                                         Some(index)), <<obj.type>>))
      IN Outcome(Some(WithTool(Entry(ClaudeEntryId(obj, index), OrElse(src, now),
                                     entryType, "claude"),
                               ClaudeExtractToolInfo(obj))),
                 missing \o unknown)

\* Faulty variant: the line that cannot be decoded is skipped without a diagnostic.
parseClaudeEntry_Silent(line, index, now, hasLogger) ==
  LET parsed == JSON_parse(line)
  IN IF parsed.ok
       THEN parseClaudeEntryObject(parsed.value, index, now, hasLogger)
       ELSE Outcome(None, <<>>)

parseClaudeEntry(line, index, now, hasLogger) ==
  LET parsed == JSON_parse(line)
  IN IF parsed.ok
       THEN parseClaudeEntryObject(parsed.value, index, now, hasLogger)
       ELSE Outcome(None, Log(hasLogger, Issue("claude", "parse_error", Some(index))))

(***************************************************************************)
(* Results of a call.  status is "ok" or "throw"; decoded counts the JSON   *)
(* texts handed to JSON.parse and the records handed to a classifier.      *)
(***************************************************************************)
Thrown(error, log, decoded) ==
  [status |-> "throw", error |-> error, entries |-> <<>>, total |-> 0,
   log |-> log, decoded |-> decoded]

Returned(entries, total, log, decoded) ==
  [status |-> "ok", error |-> "", entries |-> entries, total |-> total,
   log |-> log, decoded |-> decoded]

\* Faulty variant: the blank lines are not filtered out.
NonBlankLines_NoFilter(lines) == lines

\* content.split("\n").filter((line) => line.trim())
NonBlankLines(lines) == SelectSeq(lines, IsNonBlank)

\* readJsonlLines: the non-blank lines in file order; the callback gets the
\* line and its zero-based index among them, and total is their number.
readJsonlLines(lines) == SelectSeq(lines, IsNonBlank)

\* if (!includeRaw) delete entry._raw; else entry._raw = JSON.parse(line)
AttachRaw(outcome, line, includeRaw) ==
  IF includeRaw /\ IsSome(outcome.entry) /\ JSON_parse(line).ok
    THEN Outcome(Some(WithRaw(outcome.entry[1], JSON_parse(line).value)),
                 outcome.log)
    ELSE outcome

ClaudeSafeOffset(offset) == Max(0, offset)
ClaudeSafeLimit(limit) == Max(0, limit)

ClaudeExceeds(size, maxFileSizeBytes) ==
  IsSome(maxFileSizeBytes) /\ size > maxFileSizeBytes[1]

\* Faulty variant: the index handed to parseClaudeEntry is relative to the window.
ClaudeSmallPath_RelativeIndex(lines, safeOffset, safeLimit, includeRaw, now, hasLogger) ==
  LET all == SelectSeq(lines, IsNonBlank)
      sliced == JsSlice(all, safeOffset, safeOffset + safeLimit)
      outs == [i \in 1..Len(sliced) |->
                 AttachRaw(parseClaudeEntry(sliced[i], i - 1, now, hasLogger),
                           sliced[i], includeRaw)]
  IN Returned(PushedEntries(outs), Len(all), LoggedIssues(outs), Len(sliced))

ClaudeSmallPath(lines, safeOffset, safeLimit, includeRaw, now, hasLogger) ==
  LET all == NonBlankLines(lines)
      sliced == JsSlice(all, safeOffset, safeOffset + safeLimit)
      outs == [i \in 1..Len(sliced) |->
                 AttachRaw(parseClaudeEntry(sliced[i], safeOffset + i - 1,
                                            now, hasLogger),
                           sliced[i], includeRaw)]
  IN Returned(PushedEntries(outs), Len(all), LoggedIssues(outs), Len(sliced))

ClaudeStreamPath(lines, safeOffset, safeLimit, includeRaw, now, hasLogger) ==
  LET all == readJsonlLines(lines)
      inWindow == {i \in 1..Len(all):
                     ~(i - 1 < safeOffset \/ i - 1 >= safeOffset + safeLimit)}
      outs == [i \in 1..Len(all) |->
                 IF i \in inWindow
                   THEN AttachRaw(parseClaudeEntry(all[i], i - 1, now, hasLogger),
                                  all[i], includeRaw)
                   ELSE Outcome(None, <<>>)]
  IN Returned(PushedEntries(outs), Len(all), LoggedIssues(outs),
              Cardinality(inWindow))

\* opts: offset, limit, maxFileSizeBytes are optional; includeRaw and
\* hasLogger are booleans.
parseClaudeEntries(f, opts, now) ==
  LET safeOffset == ClaudeSafeOffset(OrElse(opts.offset, 0))
      safeLimit == ClaudeSafeLimit(OrElse(opts.limit, DEFAULT_LIMIT))
  IN IF ~f.exists THEN Thrown("ENOENT", <<>>, 0)
     ELSE IF ClaudeExceeds(f.size, opts.maxFileSizeBytes) THEN Thrown("size", <<>>, 0)
     ELSE IF f.size < SMALL_FILE_THRESHOLD
       THEN ClaudeSmallPath(f.lines, safeOffset, safeLimit, opts.includeRaw,
                            now, opts.hasLogger)
       ELSE ClaudeStreamPath(f.lines, safeOffset, safeLimit, opts.includeRaw,
                             now, opts.hasLogger)

(***************************************************************************)
(* Codex adapter.                                                          *)
(* A Codex object: timestamp, type, and payload.type / payload.role.       *)
(***************************************************************************)
CodexObj(timestamp, type, ptype, prole) ==
  [kind |-> "object", timestamp |-> timestamp, type |-> type,
   ptype |-> ptype, prole |-> prole, total |-> None, last |-> None]

\* A token_count event; total is payload.info.total_token_usage.total_tokens,
\* the running total of the session (None: the event carries no usage).
CodexTokenCount(timestamp, total) ==
  [CodexObj(timestamp, "event_msg", "token_count", Undef) EXCEPT !.total = total]

\* A token_count event that also carries payload.info.last_token_usage, the
\* usage of the last turn alone (None: it does not).
CodexTokenSnapshots(timestamp, last, total) ==
  [CodexTokenCount(timestamp, total) EXCEPT !.last = last]

\* extractTokenUsage: the usage of a token_count event, else undefined; only
\* info.total_token_usage is read.  Of
\* the four counters (input, output, cached, total), all copied and summed
\* alike, total stands for each.
CodexExtractTokenUsage(entryType, payload) ==
  IF entryType # "event_msg" THEN None
  ELSE IF payload.ptype # "token_count" THEN None
  ELSE payload.total

CodexDetectEntryType(entryType, payload) ==
  IF entryType = "session_meta" THEN "system"
  ELSE IF entryType = "turn_context" THEN "system"
  ELSE IF entryType = "event_msg" THEN
    IF payload.ptype = "user_message" THEN "user"
    ELSE IF payload.ptype = "agent_message" THEN "assistant"
    ELSE IF payload.ptype = "agent_reasoning" THEN "thinking"
    ELSE "system"
  ELSE IF entryType = "response_item" THEN
    IF payload.ptype = "message" THEN
      IF payload.prole = "user" THEN "user" ELSE "assistant"
    ELSE IF payload.ptype \in {"function_call", "custom_tool_call"}
      THEN "tool_call"
    ELSE IF payload.ptype \in {"function_call_output", "custom_tool_call_output"}
      THEN "tool_result"
    ELSE IF payload.ptype = "reasoning" THEN "thinking"
    ELSE IF payload.ptype = "ghost_snapshot" THEN "system"
    ELSE "unknown"
  ELSE "unknown"

\* A payload carries the fields of its kind.
CodexExtractToolInfo(entryType, payload) ==
  IF entryType # "response_item" THEN ToolInfo(None, None, None)
  ELSE IF payload.ptype = "function_call"
    THEN ToolInfo(Some("name"), Some("arguments"), Some("call_id"))
  ELSE IF payload.ptype = "function_call_output"
    THEN ToolInfo(None, None, Some("call_id"))
  ELSE IF payload.ptype = "custom_tool_call"
    THEN ToolInfo(Some("name"), Some("input"), Some("call_id"))
  ELSE IF payload.ptype = "custom_tool_call_output"
    THEN ToolInfo(None, None, Some("call_id"))
  ELSE ToolInfo(None, None, None)

\* The whole body is inside try/catch: undecodable text and a null record
\* (reading obj.timestamp throws) both end in a parse_error issue and null.
parseCodexEntry(line, index, hasLogger) ==
  LET parsed == JSON_parse(line)
      obj == parsed.value
  IN IF ~parsed.ok \/ obj.kind = "null"
       THEN Outcome(None, Log(hasLogger, Issue("codex", "parse_error", Some(index))))
     ELSE IF ~IsSome(obj.timestamp)
       THEN Outcome(None, Log(hasLogger,
                              Issue("codex", "missing_required_field", Some(index))))
     ELSE
       LET type == CodexDetectEntryType(obj.type, obj)
           entry == WithTool(Entry("codex-" \o ToString(index),
                                   obj.timestamp[1], type, "codex"),
                             CodexExtractToolInfo(obj.type, obj))
       IN Outcome(Some([entry EXCEPT
                          !.tokens = CodexExtractTokenUsage(obj.type, obj)]),
                  \* description: `Unknown entry type: ${entryType}/${payload.type}`
                  Log(hasLogger /\ type = "unknown",
                      Described(Issue("codex", "unknown_entry_type", Some(index)),
                                <<obj.type, obj.ptype>>)))

CodexSmallPath(lines, offset, limit, includeRaw, hasLogger) ==
  LET all == NonBlankLines(lines)
      sliced == JsSlice(all, offset, offset + limit)
      outs == [i \in 1..Len(sliced) |->
                 AttachRaw(parseCodexEntry(sliced[i], offset + i - 1, hasLogger),
                           sliced[i], includeRaw)]
  IN Returned(PushedEntries(outs), Len(all), LoggedIssues(outs), Len(sliced))

\* One pass that keeps the lines of the window, then parses the kept lines.
CodexLargePath(lines, offset, limit, includeRaw, hasLogger) ==
  LET all == NonBlankLines(lines)
      kept == [i \in 1..Len(all) |-> i - 1 >= offset /\ i - 1 < offset + limit]
      idx == SelectSeq([i \in 1..Len(all) |-> i], LAMBDA i: kept[i])
      outs == [i \in 1..Len(idx) |->
                 AttachRaw(parseCodexEntry(all[idx[i]], offset + i - 1, hasLogger),
                           all[idx[i]], includeRaw)]
  IN Returned(PushedEntries(outs), Len(all), LoggedIssues(outs), Len(idx))

\* offset and limit are used as given and no maxFileSizeBytes option is read.
parseCodexEntries(f, opts) ==
  LET offset == OrElse(opts.offset, 0)
      limit == OrElse(opts.limit, DEFAULT_LIMIT)
  IN IF ~f.exists THEN Thrown("ENOENT", <<>>, 0)
     ELSE IF f.size < SMALL_FILE_THRESHOLD
       THEN CodexSmallPath(f.lines, offset, limit, opts.includeRaw, opts.hasLogger)
       ELSE CodexLargePath(f.lines, offset, limit, opts.includeRaw, opts.hasLogger)

(***************************************************************************)
(* Gemini adapter.                                                         *)
(* A file is one JSON document; a session has an optional messages array;  *)
(* a message is null or an object with id, type, timestamp, content,       *)
(* thoughts and toolCalls.                                                 *)
(***************************************************************************)
GeminiThought(timestamp) == [timestamp |-> timestamp]

GeminiToolCall(id, timestamp, hasResult) ==
  [id |-> id, timestamp |-> timestamp, hasResult |-> hasResult]

GeminiMessage(id, type, timestamp, content, thoughts, toolCalls) ==
  [kind |-> "object", id |-> id, type |-> type, timestamp |-> timestamp,
   content |-> content, thoughts |-> thoughts, toolCalls |-> toolCalls]

GeminiSession(messages) == [kind |-> "object", messages |-> messages]

GeminiMessageType(message) ==
  IF message.type = "user" THEN "user"
  ELSE IF message.type = "gemini" THEN "assistant"
  ELSE "unknown"

GeminiBaseId(message, index) ==
  IF message.id # Undef THEN message.id ELSE "gemini-msg-" \o ToString(index)

\* a ?? b ?? new Date().toISOString()
GeminiTimestamp(own, message, now) ==
  IF IsSome(own) THEN own[1] ELSE OrElse(message.timestamp, now)

GeminiMainEntry(message, index, now) ==
  LET type == GeminiMessageType(message)
  IN IF message.content # "" \/ type # "unknown"
       THEN <<Entry(GeminiBaseId(message, index),
                    OrElse(message.timestamp, now), type, "gemini")>>
       ELSE <<>>

GeminiThoughtEntries(message, index, now) ==
  [i \in 1..Len(message.thoughts) |->
     Entry(GeminiBaseId(message, index) \o "-thought-" \o ToString(i - 1),
           GeminiTimestamp(message.thoughts[i].timestamp, message, now),
           "thinking", "gemini")]

GeminiToolCallId(message, index, i) ==
  IF message.toolCalls[i].id # Undef
    THEN message.toolCalls[i].id
    ELSE GeminiBaseId(message, index) \o "-tool-" \o ToString(i - 1)

\* Faulty variant: the result of a tool call is pushed before the call.
GeminiToolEntries_ResultFirst(message, index, now) ==
  FlattenSeq([i \in 1..Len(message.toolCalls) |->
    LET tool == message.toolCalls[i]
        toolCallId == GeminiToolCallId(message, index, i)
        ts == GeminiTimestamp(tool.timestamp, message, now)
    IN (IF tool.hasResult
          THEN <<WithTool(Entry(toolCallId \o "-result", ts, "tool_result",
                                "gemini"),
                          ToolInfo(None, None, Some(toolCallId)))>>
          ELSE <<>>)
       \o <<WithTool(Entry(toolCallId, ts, "tool_call", "gemini"),
                     ToolInfo(Some("name"), Some("args"), Some(toolCallId)))>>])

GeminiToolEntries(message, index, now) ==
  FlattenSeq([i \in 1..Len(message.toolCalls) |->
    LET tool == message.toolCalls[i]
        toolCallId == GeminiToolCallId(message, index, i)
        ts == GeminiTimestamp(tool.timestamp, message, now)
    \* toolName: tool.name ?? tool.displayName, toolInput: tool.args
    IN <<WithTool(Entry(toolCallId, ts, "tool_call", "gemini"),
                  ToolInfo(Some("name"), Some("args"), Some(toolCallId)))>>
       \o (IF tool.hasResult
             THEN <<WithTool(Entry(toolCallId \o "-result", ts, "tool_result",
                                   "gemini"),
                             ToolInfo(None, None, Some(toolCallId)))>>
             ELSE <<>>)])

\* No try/catch: reading message.id of a null message throws a TypeError.
parseGeminiMessage(message, index, now) ==
  IF message.kind = "null"
    THEN [threw |-> TRUE, entries |-> <<>>]
    ELSE [threw |-> FALSE,
          entries |-> GeminiMainEntry(message, index, now)
                      \o GeminiThoughtEntries(message, index, now)
                      \o GeminiToolEntries(message, index, now)]

GeminiMaxBytes(maxFileSizeBytes) ==
  OrElse(maxFileSizeBytes, DEFAULT_MAX_JSON_FILE_BYTES)

\* session.messages ?? []; reading it from a null document throws.
GeminiMessages(session) == OrElse(session.messages, <<>>)

GeminiAllEntries(messages, now) ==
  [threw |-> \E i \in 1..Len(messages):
                parseGeminiMessage(messages[i], i - 1, now).threw,
   \* the messages handed to parseGeminiMessage before the loop ends
   visited |-> IF \E i \in 1..Len(messages): messages[i].kind = "null"
                 THEN CHOOSE i \in 1..Len(messages):
                        /\ messages[i].kind = "null"
                        /\ \A j \in 1..(i - 1): messages[j].kind # "null"
                 ELSE Len(messages),
   entries |-> FlattenSeq([i \in 1..Len(messages) |->
                 parseGeminiMessage(messages[i], i - 1, now).entries])]

\* slicedEntries[0]._raw = session
GeminiAttachRaw(sliced, session, includeRaw) ==
  IF includeRaw /\ Len(sliced) > 0
    THEN <<WithRaw(sliced[1], session)>> \o Tail(sliced)
    ELSE sliced

parseGeminiEntries(f, opts, now) ==
  LET safeOffset == Max(0, OrElse(opts.offset, 0))
      safeLimit == Max(0, OrElse(opts.limit, DEFAULT_LIMIT))
      parsed == JSON_parse(f.doc)
      session == parsed.value
  IN IF ~f.exists THEN Thrown("ENOENT", <<>>, 0)
     ELSE IF f.size > GeminiMaxBytes(opts.maxFileSizeBytes) THEN Thrown("size", <<>>, 0)
     ELSE IF ~parsed.ok
       THEN Returned(<<>>, 0,
                     Log(opts.hasLogger, Issue("gemini", "parse_error", None)), 1)
     ELSE IF session.kind = "null" THEN Thrown("TypeError", <<>>, 1)
     ELSE
       LET messages == GeminiMessages(session)
           all == GeminiAllEntries(messages, now)
       IN IF all.threw
            THEN Thrown("TypeError", <<>>, 1 + all.visited)
            ELSE Returned(GeminiAttachRaw(JsSlice(all.entries, safeOffset,
                                                  safeOffset + safeLimit),
                                          session, opts.includeRaw),
                          Len(all.entries), <<>>, 1 + all.visited)

(***************************************************************************)
(* Transcript metadata summarizers.  A call returns a transcript or null   *)
(* and never throws: a file-level failure is caught, logged as parse_error *)
(* without an entry index, and yields null.                                *)
(***************************************************************************)
EntryTypes ==
  {"user", "assistant", "tool_call", "tool_result", "system", "summary",
   "thinking", "unknown"}

RECURSIVE SumTokens(_)
\* acc.tokens.total += entry.tokens.total ?? 0, entry after entry
SumTokens(entries) ==
  IF entries = <<>> THEN 0
  ELSE OrElse(entries[1].tokens, 0) + SumTokens(Tail(entries))

\* accumulateEntryStats over the entries handed to it: the tokens of every
\* entry are added and entryTypes[type]++
accumulateEntryStats(entries) ==
  [tokens |-> [total |-> SumTokens(entries)],
   entryTypes |->
     [t \in EntryTypes |->
        Cardinality({i \in 1..Len(entries): entries[i].type = t})]]

\* basename(filePath, ".jsonl") and basename of the project directory a
\* dashed parent directory names
FileName == Text("session", 7)
ProjectName == Text("myproject", 9)

\* id and path are set by the Claude summarizer (`claude:${fileName}` and
\* filePath); parentTranscriptId and subagents are None when undefined.
Transcript(agent, sizeBytes, entryCount, stats) ==
  [agent |-> agent, sizeBytes |-> sizeBytes, entryCount |-> entryCount,
   name |-> FileName, stats |-> stats, id |-> "", path |-> <<>>,
   isSubagent |-> FALSE, parentTranscriptId |-> None, subagents |-> None]

NAME_LENGTH == 60

\* let name = fileName; a parent directory that starts with "-" gives the
\* project's base name; every decoded record of type summary with a
\* non-empty summary then overwrites it with the summary's first 60
\* characters.
ClaudeTranscriptName(f, lines) ==
  LET summaries == SelectSeq(lines,
                     LAMBDA l: /\ JSON_parse(l).ok
                               /\ l.value.kind = "object"
                               /\ l.value.type = "summary"
                               /\ IsSome(l.value.summary)
                               /\ l.value.summary[1].len > 0)
  IN IF summaries # <<>>
       THEN SliceText(summaries[Len(summaries)].value.summary[1], NAME_LENGTH)
     ELSE IF f.dashed THEN ProjectName
     ELSE FileName

Summarized(transcript, log) ==
  [status |-> "ok", transcript |-> Some(transcript), log |-> log]

\* catch (error) { schemaLogger?.log({issueType: "parse_error", ...}); return null }
NotSummarized(agent, log, hasLogger) ==
  [status |-> "ok", transcript |-> None,
   log |-> log \o Log(hasLogger, Issue(agent, "parse_error", None))]

\* The readJsonlLines callback of parseClaudeTranscript on one line:
\* undecodable text is skipped; reading obj.type of a decoded null throws
\* out of the callback; any other record goes to parseClaudeEntryObject.
ClaudeTranscriptLine(line, index, now, hasLogger) ==
  LET parsed == JSON_parse(line)
  IN IF ~parsed.ok THEN [threw |-> FALSE, out |-> Outcome(None, <<>>)]
     ELSE IF parsed.value.kind = "null"
       THEN [threw |-> TRUE, out |-> Outcome(None, <<>>)]
     ELSE [threw |-> FALSE,
           out |-> parseClaudeEntryObject(parsed.value, index, now, hasLogger)]

\* normalizePathSeparators(filePath).split("/"): the components of the
\* directory (a leading "" when the path is absolute) and the file name.
PathParts(f) == f.dir \o <<f.base \o ".jsonl">>

\* normalizedPath.includes("/subagents/")
IncludesSubagentsDir(parts) ==
  \E i \in 2..(Len(parts) - 1): parts[i] = "subagents"

\* pathParts.indexOf("subagents"), zero-based, -1 when absent
IndexOfSubagents(parts) ==
  IF \E i \in 1..Len(parts): parts[i] = "subagents"
    THEN (CHOOSE i \in 1..Len(parts):
            /\ parts[i] = "subagents"
            /\ \A j \in 1..(i - 1): parts[j] # "subagents") - 1
    ELSE -1

\* The parent id a file under a subagents directory reads off its own path.
ParentIdFromPath(parts) ==
  LET subagentsIndex == IndexOfSubagents(parts)
  IN IF subagentsIndex > 0
       THEN Some("claude:" \o parts[subagentsIndex])
       ELSE None

\* join(subagentsDir, subFile) for a file of join(dirname(filePath),
\* fileName, "subagents")
SubagentFile(f, child) ==
  [child EXCEPT !.dir = f.dir \o <<f.base, "subagents">>]

\* scanSubagents = true unless the caller says otherwise
ScanSubagents(opts) ==
  IF "scanSubagents" \in DOMAIN opts THEN opts.scanSubagents ELSE TRUE

\* Faulty variant: an empty list of subagents is returned as it is.
NormalizeSubagents_KeepEmpty(subagents) == Some(subagents)

\* if (subagents.length === 0) subagents = undefined
NormalizeSubagents(subagents) ==
  IF Len(subagents) = 0 THEN None ELSE Some(subagents)

\* The pass of parseClaudeTranscript over the lines of the file, up to
\* finalizeStats.
ClaudeTranscriptPass(f, opts, now) ==
  IF ~f.exists \/ ClaudeExceeds(f.size, opts.maxFileSizeBytes)
    THEN NotSummarized("claude", <<>>, opts.hasLogger)
    ELSE
      LET all == readJsonlLines(f.lines)
          steps == [i \in 1..Len(all) |->
                      ClaudeTranscriptLine(all[i], i - 1, now, opts.hasLogger)]
          throwing == {i \in 1..Len(all): steps[i].threw}
          \* the callbacks that ran: up to and including the first that throws
          ran == IF throwing = {} THEN Len(all)
                 ELSE CHOOSE i \in throwing: \A j \in throwing: i <= j
          outs == [i \in 1..ran |-> steps[i].out]
      IN IF throwing # {}
           THEN NotSummarized("claude", LoggedIssues(outs), opts.hasLogger)
           ELSE Summarized([Transcript("claude", f.size, Len(all),
                                       accumulateEntryStats(PushedEntries(outs)))
                              EXCEPT !.name = ClaudeTranscriptName(f, all)],
                           LoggedIssues(outs))

RECURSIVE parseClaudeTranscript(_, _, _)
\* After the pass: a file under a subagents directory reads its parent off
\* its path; any other file, when scanSubagents is set, lists the sibling
\* directory <fileName>/subagents (f.children, None when the directory
\* cannot be read) and parses each .jsonl file in it with scanSubagents
\* false, stamping the transcripts that come back.
parseClaudeTranscript(f, opts, now) ==
  LET pass == ClaudeTranscriptPass(f, opts, now)
      parts == PathParts(f)
      isSubagent == IncludesSubagentsDir(parts)
      scanned == ~isSubagent /\ ScanSubagents(opts) /\ IsSome(f.children)
      subFiles == IF scanned
                    THEN SelectSeq(f.children[1], LAMBDA c: c.jsonl)
                    ELSE <<>>
      subOpts == [hasLogger |-> opts.hasLogger,
                  maxFileSizeBytes |-> opts.maxFileSizeBytes,
                  scanSubagents |-> FALSE]
      subResults == [k \in 1..Len(subFiles) |->
                       parseClaudeTranscript(SubagentFile(f, subFiles[k]),
                                             subOpts, now)]
      found == SelectSeq(subResults, LAMBDA r: IsSome(r.transcript))
      stamped == [k \in 1..Len(found) |->
                    [found[k].transcript[1] EXCEPT
                       !.parentTranscriptId = Some("claude:" \o f.base)]]
  IN IF ~IsSome(pass.transcript) THEN pass
     ELSE Summarized(
            [pass.transcript[1] EXCEPT
               !.id = "claude:" \o f.base,
               !.path = parts,
               !.isSubagent = isSubagent,
               !.parentTranscriptId =
                 IF isSubagent THEN ParentIdFromPath(parts) ELSE None,
               !.subagents =
                 IF scanned THEN NormalizeSubagents(stamped) ELSE None],
            pass.log \o FlattenSeq([k \in 1..Len(subResults) |->
                                      subResults[k].log]))

CHUNK_SIZE == 64 * 1024

\* Math.round(fileSize / 500)
CodexEstimatedCount(fileSize) == (fileSize + 250) \div 500

\* parseCodexTranscript reads no maxFileSizeBytes option: only a failing
\* stat (a missing file) reaches the catch block.  It samples the first 50
\* non-blank lines of the first chunk and the last chunk; the records of a
\* file are taken to lie in the first chunk, the rest being blank padding.
\* A line is counted and classified only once JSON.parse has accepted it,
\* and whatever its handling throws is swallowed.
parseCodexTranscript(f, opts) ==
  IF ~f.exists
    THEN NotSummarized("codex", <<>>, opts.hasLogger)
    ELSE
      LET firstLines == JsSlice(NonBlankLines(f.lines), 0, 50)
          decoded == SelectSeq(firstLines, LAMBDA l: JSON_parse(l).ok)
          outs == [k \in 1..Len(decoded) |->
                     parseCodexEntry(decoded[k], k - 1, opts.hasLogger)]
          entryCount == IF Len(decoded) < 100 /\ f.size > CHUNK_SIZE * 2
                          THEN CodexEstimatedCount(f.size)
                          ELSE Len(decoded)
      IN Summarized(Transcript("codex", f.size, entryCount,
                               accumulateEntryStats(PushedEntries(outs))),
                    LoggedIssues(outs))

parseGeminiTranscript(f, opts, now) ==
  LET parsed == JSON_parse(f.doc)
      session == parsed.value
  IN IF ~f.exists \/ f.size > GeminiMaxBytes(opts.maxFileSizeBytes)
       THEN NotSummarized("gemini", <<>>, opts.hasLogger)
     ELSE IF ~parsed.ok
       \* the inner catch logs "Failed to parse JSON" and returns null
       THEN NotSummarized("gemini", <<>>, opts.hasLogger)
     ELSE IF session.kind = "null"
       THEN NotSummarized("gemini", <<>>, opts.hasLogger)
     ELSE
       LET all == GeminiAllEntries(GeminiMessages(session), now)
       IN IF all.threw
            THEN NotSummarized("gemini", <<>>, opts.hasLogger)
            ELSE Summarized(Transcript("gemini", f.size, Len(all.entries),
                                       accumulateEntryStats(all.entries)),
                            <<>>)

(***************************************************************************)
(* Inputs: the files and the options of a call.                            *)
(***************************************************************************)
SeqsUpTo(S, n) == UNION {[1..k -> S]: k \in 0..n}

\* {"type":"user","ts":2,"message":{"role":"user",...}}
ClaudeGood == ClaudeObj("user", "user", None, Undef, None, Some(2))
\* {"uuid":"u1","type":"assistant","message":{"role":"assistant",...}}
ClaudeNoTimestamp == ClaudeObj("assistant", "assistant", None, "u1", None, None)

ClaudeLineKinds ==
  {BlankLine, GarbageLine, NullLine, ObjectLine(ClaudeGood),
   ObjectLine(ClaudeNoTimestamp)}

\* {"timestamp":...,"type":"event_msg","payload":{"type":"user_message"}}
CodexGood == CodexObj(Some(1), "event_msg", "user_message", Undef)
CodexNoTimestamp == CodexObj(None, "response_item", "message", "assistant")

CodexLineKinds ==
  {BlankLine, GarbageLine, NullLine, ObjectLine(CodexGood),
   ObjectLine(CodexNoTimestamp)}

GeminiUser == GeminiMessage("m1", "user", Some(1), "hi", <<>>, <<>>)
GeminiReply ==
  GeminiMessage(Undef, "gemini", None, "", <<GeminiThought(None)>>,
                <<GeminiToolCall(Undef, None, TRUE)>>)
GeminiInfo ==
  GeminiMessage(Undef, "info", None, "", <<>>,
                <<GeminiToolCall("t1", Some(3), FALSE)>>)

GeminiMessageKinds == {NullValue, GeminiUser, GeminiReply, GeminiInfo}

GeminiDocs ==
  {GarbageLine, NullLine, ObjectLine(GeminiSession(None))}
    \cup {ObjectLine(GeminiSession(Some(ms))):
            ms \in SeqsUpTo(GeminiMessageKinds, MaxLines)}

JsonlSizes == {SMALL_FILE_THRESHOLD - 1, SMALL_FILE_THRESHOLD}
GeminiSizes == {SMALL_FILE_THRESHOLD, DEFAULT_MAX_JSON_FILE_BYTES + 1}

\* dashed: the name of the parent directory starts with "-".  dir and base
\* are the directory components and the file name without ".jsonl" of the
\* path; children are the files of the directory <base>/subagents beside
\* the file (None: there is no such directory) and jsonl tells whether the
\* file's own name ends with ".jsonl".
File(format, exists, size, lines, doc) ==
  [format |-> format, exists |-> exists, size |-> size, lines |-> lines,
   doc |-> doc, dashed |-> FALSE, dir |-> <<"", "p">>, base |-> "session",
   jsonl |-> TRUE, children |-> None]

MissingFiles ==
  {File(a, FALSE, 0, <<>>, GarbageLine): a \in {"claude", "codex", "gemini"}}

Files ==
  {File("claude", TRUE, sz, ls, GarbageLine):
     sz \in JsonlSizes, ls \in SeqsUpTo(ClaudeLineKinds, MaxLines)}
  \cup {File("codex", TRUE, sz, ls, GarbageLine):
          sz \in JsonlSizes, ls \in SeqsUpTo(CodexLineKinds, MaxLines)}
  \cup {File("gemini", TRUE, sz, <<>>, d): sz \in GeminiSizes, d \in GeminiDocs}
  \cup MissingFiles

Optional(S) == {None} \cup {Some(v): v \in S}

EntriesOptions(f) ==
  [offset: {Some(v): v \in -1..MaxOffset},
   limit: Optional(-1..MaxLimit),
   includeRaw: BOOLEAN,
   hasLogger: BOOLEAN,
   maxFileSizeBytes: Optional({f.size - 1, f.size})]

TranscriptOptions(f) ==
  [hasLogger: BOOLEAN, maxFileSizeBytes: Optional({f.size - 1, f.size})]

parseEntries(f, opts, now) ==
  CASE f.format = "claude" -> parseClaudeEntries(f, opts, now)
    [] f.format = "codex" -> parseCodexEntries(f, opts)
    [] f.format = "gemini" -> parseGeminiEntries(f, opts, now)

parseTranscript(f, opts, now) ==
  CASE f.format = "claude" -> parseClaudeTranscript(f, opts, now)
    [] f.format = "codex" -> parseCodexTranscript(f, opts)
    [] f.format = "gemini" -> parseGeminiTranscript(f, opts, now)

(***************************************************************************)
(* The state machine: a caller holds one file and makes a call, or pages   *)
(* through the file window by window.                                      *)
(***************************************************************************)
(***************************************************************************)
(* The schema logger: createSchemaLogger({ maxIssues }) keeps the issues   *)
(* and a counter.  history is not a field of the logger: it records every  *)
(* issue logged since the last clear, and counts the lengths of            *)
(* getIssues() a caller has read since then.                               *)
(***************************************************************************)
DEFAULT_MAX_ISSUES == 1000

NewLogger(maxIssues) ==
  [maxIssues |-> maxIssues, issues |-> <<>>, issueCounter |-> 0,
   history |-> <<>>, counts |-> <<>>]

\* A call that is handed no logger of this kind.
NoLogger == NewLogger(DEFAULT_MAX_ISSUES)

\* Faulty variant: an issue equal to a stored one is not stored again.
LoggerLog_Once(lg, input) ==
  LET issue == [id |-> lg.issueCounter + 1, input |-> input]
      pushed == IF \E k \in 1..Len(lg.issues): lg.issues[k].input = input
                  THEN lg.issues ELSE Append(lg.issues, issue)
  IN [lg EXCEPT !.issueCounter = lg.issueCounter + 1,
                !.issues = IF Len(pushed) > lg.maxIssues
                             THEN Tail(pushed) ELSE pushed,
                !.history = Append(lg.history, issue)]

\* Faulty variant: when the logger is full the newest issue is dropped.
LoggerLog_DropNewest(lg, input) ==
  LET issue == [id |-> lg.issueCounter + 1, input |-> input]
      pushed == Append(lg.issues, issue)
  IN [lg EXCEPT !.issueCounter = lg.issueCounter + 1,
                !.issues = IF Len(pushed) > lg.maxIssues
                             THEN lg.issues ELSE pushed,
                !.history = Append(lg.history, issue)]

\* log(input): id `schema-issue-${++issueCounter}`; issues.push(issue);
\* if (issues.length > maxIssues) issues.shift()
LoggerLog(lg, input) ==
  LET issue == [id |-> lg.issueCounter + 1, input |-> input]
      pushed == Append(lg.issues, issue)
  IN [lg EXCEPT !.issueCounter = lg.issueCounter + 1,
                !.issues = IF Len(pushed) > lg.maxIssues
                             THEN Tail(pushed) ELSE pushed,
                !.history = Append(lg.history, issue)]

RECURSIVE LoggerLogAll(_, _)
\* The log calls of one parsing call, in order.
LoggerLogAll(lg, inputs) ==
  IF inputs = <<>> THEN lg
  ELSE LoggerLogAll(LoggerLog(lg, inputs[1]), Tail(inputs))

\* clear(): issues.length = 0; issueCounter = 0
LoggerClear(lg) == NewLogger(lg.maxIssues)

\* getIssues().length, read by the caller
LoggerRead(lg) == [lg EXCEPT !.counts = Append(lg.counts, Len(lg.issues))]

NoCall == [fn |-> "none"]
NoPager == [pos |-> 0, total |-> 0, acc |-> <<>>]
MaxClock == Now0 + 1

\* The locals of a readJsonlLines call that has not begun.
NoReader ==
  [at |-> "open", handle |-> "none", status |-> "running", error |-> "",
   position |-> 0, leftover |-> <<>>, queue |-> <<>>, final |-> FALSE,
   lineIndex |-> 0, total |-> 0, active |-> 0, delivered |-> <<>>]

Init ==
  /\ file \in Files
  /\ clock = Now0
  /\ pc = "idle"
  /\ call = NoCall
  /\ result = NoCall
  /\ prev = None
  /\ issues = <<>>
  /\ pager = NoPager
  /\ reader = NoReader
  /\ logger = NoLogger

\* const logger = createSchemaLogger(); await parse*Entries(path, opts)
ParseEntries ==
  /\ pc = "idle"
  /\ \E opts \in EntriesOptions(file):
       LET r == parseEntries(file, opts, clock)
       IN /\ call' = [fn |-> "entries", opts |-> opts]
          /\ result' = r
          /\ issues' = r.log
  /\ pc' = "called"
  /\ UNCHANGED <<file, clock, prev, pager, reader, logger>>

\* const logger = createSchemaLogger(); await parse*Transcript(path, opts)
ParseTranscript ==
  /\ pc = "idle"
  /\ \E opts \in TranscriptOptions(file):
       LET r == parseTranscript(file, opts, clock)
       IN /\ call' = [fn |-> "transcript", opts |-> opts]
          /\ result' = r
          /\ issues' = r.log
  /\ pc' = "called"
  /\ UNCHANGED <<file, clock, prev, pager, reader, logger>>

PageOptions(offset, limit) ==
  [offset |-> Some(offset), limit |-> Some(limit), includeRaw |-> FALSE,
   hasLogger |-> TRUE, maxFileSizeBytes |-> None]

\* const { total } = await parse*Entries(path, { limit: 0 })
StartPaging ==
  /\ pc = "idle"
  /\ LET r == parseEntries(file, PageOptions(0, 0), clock)
     IN /\ r.status = "ok"
        /\ call' = [fn |-> "paging", opts |-> PageOptions(0, 0)]
        /\ result' = r
        /\ issues' = r.log
        /\ pager' = [pos |-> 0, total |-> r.total, acc |-> <<>>]
  /\ pc' = "paging"
  /\ UNCHANGED <<file, clock, prev, reader, logger>>

\* The next window: entries = entries.concat(page.entries); offset += limit
NextPage ==
  /\ pc = "paging"
  /\ pager.pos < pager.total
  /\ \E limit \in 1..MaxLimit, now \in clock..MaxClock:
       LET r == parseEntries(file, PageOptions(pager.pos, limit), now)
       IN /\ clock' = now
          /\ call' = [fn |-> "paging", opts |-> PageOptions(pager.pos, limit)]
          /\ result' = r
          /\ issues' = issues \o r.log
          /\ pager' = [pager EXCEPT !.pos = pager.pos + limit,
                                    !.acc = pager.acc \o r.entries]
  /\ UNCHANGED <<file, pc, prev, reader, logger>>

Next == ParseEntries \/ ParseTranscript \/ StartPaging \/ NextPage

Spec == Init /\ [][Next]_vars

(***************************************************************************)
(* A caller that parses a file and then parses it again with the same      *)
(* options, at the same or a later time.  The file's own size decides      *)
(* whether the calls pass the size check (no maxFileSizeBytes is given).   *)
(***************************************************************************)
RepeatOptions(f) ==
  [offset: {Some(v): v \in -1..MaxOffset},
   limit: Optional(-1..MaxLimit),
   includeRaw: BOOLEAN,
   hasLogger: BOOLEAN,
   maxFileSizeBytes: {None}]

\* const first = await parse*Entries(path, opts)
FirstParse ==
  /\ pc = "idle"
  /\ \E opts \in RepeatOptions(file):
       LET r == parseEntries(file, opts, clock)
       IN /\ call' = [fn |-> "entries", opts |-> opts]
          /\ result' = r
          /\ issues' = r.log
  /\ pc' = "called"
  /\ UNCHANGED <<file, clock, prev, pager, reader, logger>>

\* const second = await parse*Entries(path, opts)
Reparse ==
  /\ pc = "called"
  /\ call.fn = "entries"
  /\ \E now \in clock..MaxClock:
       LET r == parseEntries(file, call.opts, now)
       IN /\ clock' = now
          /\ prev' = Some(result)
          /\ result' = r
          /\ issues' = issues \o r.log
  /\ pc' = "reparsed"
  /\ UNCHANGED <<file, call, pager, reader, logger>>

NextReparse == FirstParse \/ Reparse

SpecReparse == Init /\ [][NextReparse]_vars

(***************************************************************************)
(* Calls that give no offset and no limit, on files of about DEFAULT_LIMIT *)
(* records that all parse.                                                 *)
(***************************************************************************)
Repeat(x, n) == [i \in 1..n |-> x]

LongLengths == (DEFAULT_LIMIT - 1)..(DEFAULT_LIMIT + MaxPad)

LongFiles ==
  {File("claude", TRUE, sz, Repeat(ObjectLine(ClaudeGood), n), GarbageLine):
     sz \in JsonlSizes, n \in LongLengths}
  \cup {File("codex", TRUE, sz, Repeat(ObjectLine(CodexGood), n), GarbageLine):
          sz \in JsonlSizes, n \in LongLengths}
  \cup {File("gemini", TRUE, sz, <<>>,
              ObjectLine(GeminiSession(Some(Repeat(GeminiUser, n))))):
          sz \in GeminiSizes, n \in LongLengths}

DefaultOptions(f) ==
  [offset: {None}, limit: {None}, includeRaw: BOOLEAN, hasLogger: BOOLEAN,
   maxFileSizeBytes: Optional({f.size - 1, f.size})]

InitDefault ==
  /\ file \in LongFiles
  /\ clock = Now0
  /\ pc = "idle"
  /\ call = NoCall
  /\ result = NoCall
  /\ prev = None
  /\ issues = <<>>
  /\ pager = NoPager
  /\ reader = NoReader
  /\ logger = NoLogger

\* await parse*Entries(path) or parse*Entries(path, { includeRaw, ... })
ParseEntriesDefault ==
  /\ pc = "idle"
  /\ \E opts \in DefaultOptions(file):
       LET r == parseEntries(file, opts, clock)
       IN /\ call' = [fn |-> "entries", opts |-> opts]
          /\ result' = r
          /\ issues' = r.log
  /\ pc' = "called"
  /\ UNCHANGED <<file, clock, prev, pager, reader, logger>>

NextDefault == ParseEntriesDefault

SpecDefault == InitDefault /\ [][NextDefault]_vars

(***************************************************************************)
(* readJsonlLines at the level of bytes and chunks.  A file is a text of   *)
(* characters; "e'" and "nbsp" stand for the two-byte characters U+00E9    *)
(* and U+00A0 (the latter is white space for String.prototype.trim).  A    *)
(* byte is the character it belongs to and its part: 0 for a one-byte      *)
(* character, 1 and 2 for the lead and the continuation byte.              *)
(***************************************************************************)
JSONL_STREAM_CHUNK_SIZE == 64 * 1024

TwoByteChars == {"e'", "nbsp"}
StreamChars == {"a", " ", "\n"} \cup TwoByteChars
ReplacementChar == "U+FFFD"

\* The UTF-8 encoding of one character.
Utf8Encode(ch) ==
  IF ch \in TwoByteChars
    THEN <<[ch |-> ch, part |-> 1], [ch |-> ch, part |-> 2]>>
    ELSE <<[ch |-> ch, part |-> 0]>>

Utf8Bytes(text) == FlattenSeq([i \in 1..Len(text) |-> Utf8Encode(text[i])])

\* buffer.toString("utf-8", 0, bytesRead): a lead byte without its
\* continuation, and a continuation byte without its lead, each decode to
\* U+FFFD.
BufferToString(bytes) ==
  FlattenSeq([i \in 1..Len(bytes) |->
    IF bytes[i].part = 0 THEN <<bytes[i].ch>>
    ELSE IF bytes[i].part = 1
      THEN IF i < Len(bytes) /\ bytes[i + 1].part = 2
             THEN <<bytes[i].ch>> ELSE <<ReplacementChar>>
    ELSE IF i > 1 /\ bytes[i - 1].part = 1 THEN <<>> ELSE <<ReplacementChar>>])

\* s.split("\n"): the pieces between the newlines, one more than newlines.
SplitLines(s) ==
  LET nls == SelectSeq([i \in 1..Len(s) |-> i], LAMBDA i: s[i] = "\n")
      cuts == <<0>> \o nls \o <<Len(s) + 1>>
  IN [k \in 1..(Len(nls) + 1) |-> SubSeq(s, cuts[k] + 1, cuts[k + 1] - 1)]

IsWhiteSpace(ch) == ch \in {" ", "nbsp", "\n"}

\* s.trim()
Trim(s) ==
  LET inked == {i \in 1..Len(s): ~IsWhiteSpace(s[i])}
  IN IF inked = {} THEN <<>>
     ELSE SubSeq(s, CHOOSE i \in inked: \A j \in inked: i <= j,
                    CHOOSE i \in inked: \A j \in inked: i >= j)

\* Faulty variant: the handle is closed only when the function returns.
Finally_OnlyOnReturn(r) ==
  IF r.status = "threw" THEN [r EXCEPT !.at = "done"]
  ELSE [r EXCEPT !.handle = "closed", !.at = "done"]

\* finally { await handle.close() }
Finally(r) == [r EXCEPT !.handle = "closed", !.at = "done"]

\* await onLine(trimmed, lineIndex): the callback is entered
Deliver(r, trimmed) ==
  [r EXCEPT !.delivered = Append(r.delivered,
                                 [line |-> trimmed, index |-> r.lineIndex]),
            !.active = r.active + 1,
            !.at = "callback"]

\* const handle = await open(filePath, "r")
OpenFile ==
  /\ reader.at = "open"
  /\ reader' = IF file.exists
                 THEN [reader EXCEPT !.handle = "open", !.at = "read"]
                 ELSE [reader EXCEPT !.status = "threw", !.error = "ENOENT",
                                     !.at = "done"]
  /\ UNCHANGED <<file, clock, pc, call, result, prev, issues, pager, logger>>

\* await handle.read(buffer, 0, buffer.length, position), then the split of
\* leftover + chunk; the read may fail with an I/O error.
ReadChunk ==
  /\ reader.at = "read"
  /\ \E ioError \in BOOLEAN:
       LET bytes == Utf8Bytes(file.text)
           bytesRead == Min(file.chunkSize, Len(bytes) - reader.position)
           chunk == reader.leftover
                    \o BufferToString(SubSeq(bytes, reader.position + 1,
                                             reader.position + bytesRead))
           lines == SplitLines(chunk)
       IN reader' =
            IF ioError
              THEN Finally([reader EXCEPT !.status = "threw", !.error = "EIO"])
            ELSE IF bytesRead = 0 THEN [reader EXCEPT !.at = "final"]
            ELSE [reader EXCEPT !.position = reader.position + bytesRead,
                                !.leftover = lines[Len(lines)],
                                !.queue = SubSeq(lines, 1, Len(lines) - 1),
                                !.at = "lines"]
  /\ UNCHANGED <<file, clock, pc, call, result, prev, issues, pager, logger>>

\* for (const rawLine of lines): blank lines are passed over; the next
\* non-blank one is handed to the callback; at the end the next read follows.
NextLine ==
  /\ reader.at = "lines"
  /\ LET inked == {i \in 1..Len(reader.queue): Trim(reader.queue[i]) # <<>>}
         first == CHOOSE i \in inked: \A j \in inked: i <= j
     IN reader' =
          IF inked = {}
            THEN [reader EXCEPT !.queue = <<>>, !.at = "read"]
            ELSE Deliver([reader EXCEPT !.queue =
                            SubSeq(reader.queue, first + 1, Len(reader.queue))],
                         Trim(reader.queue[first]))
  /\ UNCHANGED <<file, clock, pc, call, result, prev, issues, pager, logger>>

\* const finalLine = leftover.trim(); if (finalLine) await onLine(...);
\* without a final line the function returns { total }.
FinalLine ==
  /\ reader.at = "final"
  /\ reader' =
       IF Trim(reader.leftover) # <<>>
         THEN Deliver([reader EXCEPT !.final = TRUE], Trim(reader.leftover))
         ELSE Finally([reader EXCEPT !.status = "returned"])
  /\ UNCHANGED <<file, clock, pc, call, result, prev, issues, pager, logger>>

\* The callback's promise settles: lineIndex++; total++ and the loop goes
\* on (or, after the final line, the function returns), or the rejection
\* leaves the function through finally.
CallbackSettles ==
  /\ reader.at = "callback"
  /\ \E throws \in BOOLEAN:
       LET left == [reader EXCEPT !.active = reader.active - 1]
           counted == [left EXCEPT !.lineIndex = reader.lineIndex + 1,
                                   !.total = reader.total + 1]
       IN reader' =
            IF throws
              THEN Finally([left EXCEPT !.status = "threw", !.error = "callback"])
            ELSE IF reader.final
              THEN Finally([counted EXCEPT !.status = "returned"])
            ELSE [counted EXCEPT !.at = "lines"]
  /\ UNCHANGED <<file, clock, pc, call, result, prev, issues, pager, logger>>

StreamFile(exists, text, chunkSize) ==
  [format |-> "jsonl", exists |-> exists, text |-> text, chunkSize |-> chunkSize]

ChunkSizes == 1..MaxChunk \cup {JSONL_STREAM_CHUNK_SIZE}

StreamFiles ==
  {StreamFile(TRUE, text, size):
     text \in SeqsUpTo(StreamChars, MaxChars), size \in ChunkSizes}
  \cup {StreamFile(FALSE, <<>>, JSONL_STREAM_CHUNK_SIZE)}

InitStream ==
  /\ file \in StreamFiles
  /\ clock = Now0
  /\ pc = "idle"
  /\ call = NoCall
  /\ result = NoCall
  /\ prev = None
  /\ issues = <<>>
  /\ pager = NoPager
  /\ reader = NoReader
  /\ logger = NoLogger

NextStream == OpenFile \/ ReadChunk \/ NextLine \/ FinalLine \/ CallbackSettles

SpecStream == InitStream /\ [][NextStream]_vars

(***************************************************************************)
(* Properties.                                                             *)
(***************************************************************************)
IsEntriesCall == pc \in {"called", "reparsed"} /\ call.fn = "entries"
IsJsonl == file.format \in {"claude", "codex"}

\* The number of non-blank lines of the file, counted line by line.
NonBlankCount == Cardinality({i \in 1..Len(file.lines): file.lines[i].kind # "blank"})

IdsAndTypes(entries) ==
  [i \in 1..Len(entries) |-> [id |-> entries[i].id, type |-> entries[i].type]]

\* C1: once consecutive windows have covered [0, total), the concatenation
\* of the windows' entries has the ids and types, in order, of the entries
\* of one call with offset 0 and limit >= total.
C1_PaginationComplete ==
  (pc = "paging" /\ pager.pos >= pager.total) =>
    \A extra \in 0..1:
      LET full == parseEntries(file, PageOptions(0, pager.total + extra), clock)
      IN /\ full.status = "ok"
         /\ full.total = pager.total
         /\ IdsAndTypes(pager.acc) = IdsAndTypes(full.entries)

\* Several windows, the last one starting past 0, returned entries.
C1_Witness ==
  /\ pc = "paging"
  /\ pager.pos >= pager.total
  /\ pager.total >= 3
  /\ call.opts.offset[1] >= 2
  /\ Len(pager.acc) >= 2
  /\ Len(result.entries) >= 1

ClampedOptions(opts) ==
  [opts EXCEPT !.offset = Some(Max(0, opts.offset[1])),
               !.limit = IF IsSome(opts.limit)
                           THEN Some(Max(0, opts.limit[1])) ELSE None]

\* C3: a call with (offset, limit) returns what the call with
\* (max(0, offset), max(0, limit)) returns, in all three formats.
C3_NegativeClamped ==
  (pc = "called" /\ call.fn = "entries") =>
    result = parseEntries(file, ClampedOptions(call.opts), clock)

\* parseCodexEntries on a file of one record with offset -1 and limit 1:
\* lines.slice(-1, 0) is empty, while the window [0, 1) holds the record.
C3_CodexNegativeOffset ==
  /\ pc = "called" /\ call.fn = "entries" /\ file.format = "codex"
  /\ file.lines = <<ObjectLine(CodexGood)>>
  /\ call.opts.offset = Some(-1) /\ call.opts.limit = Some(1)
  /\ result.status = "ok"
  /\ result.entries = <<>>
  /\ Len(parseEntries(file, ClampedOptions(call.opts), clock).entries) = 1

\* Every record of the file yields an entry (one per line; for Gemini, no
\* message is null).
AllRecordsParse ==
  IF IsJsonl
    THEN \A i \in 1..Len(file.lines):
           \/ file.lines[i].kind = "blank"
           \/ /\ file.lines[i].kind = "json"
              /\ file.lines[i].value.kind = "object"
              /\ file.format = "codex" => IsSome(file.lines[i].value.timestamp)
    ELSE /\ file.doc.kind = "json"
         /\ file.doc.value.kind = "object"
         /\ \A i \in 1..Len(GeminiMessages(file.doc.value)):
              GeminiMessages(file.doc.value)[i].kind = "object"

\* C4: without a limit every entry is returned: entries.length equals total
\* on a file whose records all parse, however many records it holds.
C4_DefaultReturnsAll ==
  (pc = "called" /\ call.fn = "entries" /\ call.opts.limit = None
     /\ call.opts.offset \in {None, Some(0)} /\ result.status = "ok"
     /\ AllRecordsParse) =>
    Len(result.entries) = result.total

\* A file of DEFAULT_LIMIT + 1 records parsed without a limit: total counts
\* them all and DEFAULT_LIMIT entries are returned.
C4_DefaultCapped ==
  /\ pc = "called" /\ call.fn = "entries" /\ call.opts.limit = None
  /\ result.status = "ok"
  /\ result.total = DEFAULT_LIMIT + 1
  /\ Len(result.entries) = DEFAULT_LIMIT

(***************************************************************************)
(* Line-level failures in parseClaudeEntries and parseCodexEntries.        *)
(***************************************************************************)
\* The non-blank lines of the file, in file order.
RecordLines == SelectSeq(file.lines, LAMBDA l: l.kind # "blank")

\* The one-based positions of the lines in the window [offset, offset + limit)
\* the call asks for; without a limit the window runs to the end of the file.
WindowOf(opts) ==
  LET lo == Max(0, OrElse(opts.offset, 0))
      hi == IF IsSome(opts.limit) THEN lo + Max(0, opts.limit[1])
            ELSE Len(RecordLines)
  IN {i \in 1..Len(RecordLines): lo < i /\ i <= hi}

\* A well-formed line: a JSON object carrying what its format requires (a
\* Codex record must carry a timestamp).
WellFormed(line) ==
  /\ line.kind = "json"
  /\ line.value.kind = "object"
  /\ file.format = "codex" => IsSome(line.value.timestamp)

\* The id of the entry of the well-formed line at one-based position i.
ExpectedId(i) ==
  IF file.format = "claude" /\ RecordLines[i].value.uuid # Undef
    THEN RecordLines[i].value.uuid
    ELSE file.format \o "-" \o ToString(i - 1)

ExpectedIds(opts) ==
  LET idx == SelectSeq([i \in 1..Len(RecordLines) |-> i],
                       LAMBDA i: i \in WindowOf(opts) /\ WellFormed(RecordLines[i]))
  IN [k \in 1..Len(idx) |-> ExpectedId(idx[k])]

\* A call on a file that can be read, within the size limit where the
\* function has one, for a window given by an offset and a limit that are
\* not negative (parseCodexEntries hands negative ones to Array.slice).
ReadableWindowCall ==
  /\ pc = "called" /\ call.fn = "entries" /\ IsJsonl
  /\ file.exists
  /\ ~(file.format = "claude" /\ IsSome(call.opts.maxFileSizeBytes)
        /\ file.size > call.opts.maxFileSizeBytes[1])
  /\ file.format = "codex" =>
       /\ OrElse(call.opts.offset, 0) >= 0
       /\ OrElse(call.opts.limit, 0) >= 0

WithinSizeLimit(opts) ==
  ~(IsSome(opts.maxFileSizeBytes) /\ file.size > opts.maxFileSizeBytes[1])

\* C6: one bad record never aborts parseClaudeTranscript: on a readable file
\* within the size limit the call returns a transcript, whatever a line
\* holds (undecodable text, or the JSON value null); its entryCount is the
\* number of non-blank lines and its stats count the well-formed records.
C6_BadRecordNeverAborts ==
  (pc = "called" /\ call.fn = "transcript" /\ file.format = "claude"
     /\ file.exists /\ WithinSizeLimit(call.opts)) =>
    /\ IsSome(result.transcript)
    /\ result.transcript[1].entryCount = Len(RecordLines)
    /\ \A t \in EntryTypes:
         result.transcript[1].stats.entryTypes[t] =
           Cardinality({i \in 1..Len(RecordLines):
                          /\ WellFormed(RecordLines[i])
                          /\ ClaudeDetectEntryType(RecordLines[i].value) = t})

\* A well-formed record followed by the line null: no transcript is returned.
C6_NullLineAborts ==
  /\ pc = "called" /\ call.fn = "transcript" /\ file.format = "claude"
  /\ file.exists /\ WithinSizeLimit(call.opts)
  /\ file.lines = <<ObjectLine(ClaudeGood), NullLine>>
  /\ result.transcript = None

\* The entries of the messages that are objects, each under its own index.
GeminiOtherEntries(messages, now) ==
  FlattenSeq([i \in 1..Len(messages) |->
    IF messages[i].kind = "null" THEN <<>>
    ELSE GeminiMainEntry(messages[i], i - 1, now)
         \o GeminiThoughtEntries(messages[i], i - 1, now)
         \o GeminiToolEntries(messages[i], i - 1, now)])

IsGeminiSessionCall ==
  /\ pc = "called" /\ call.fn = "entries" /\ file.format = "gemini"
  /\ file.exists
  /\ file.size <= OrElse(call.opts.maxFileSizeBytes, DEFAULT_MAX_JSON_FILE_BYTES)
  /\ file.doc.kind = "json" /\ file.doc.value.kind = "object"

\* C7: parseGeminiEntries does not throw because of one message: on a
\* decodable session within the size cap a null element of messages yields
\* no entry and a parse_error issue, and the entries of the other messages
\* are returned.
C7_MalformedMessageSkipped ==
  IsGeminiSessionCall =>
    LET messages == OrElse(file.doc.value.messages, <<>>)
        others == GeminiOtherEntries(messages, clock)
        lo == Max(0, OrElse(call.opts.offset, 0))
        hi == IF IsSome(call.opts.limit) THEN lo + Max(0, call.opts.limit[1])
              ELSE Len(others)
    IN /\ result.status = "ok"
       /\ result.total = Len(others)
       /\ IdsAndTypes(result.entries) = IdsAndTypes(JsSlice(others, lo, hi))
       /\ ((\E i \in 1..Len(messages): messages[i].kind = "null")
             /\ call.opts.hasLogger) =>
            \E k \in 1..Len(issues): issues[k].issueType = "parse_error"

\* A user message followed by a null message: the call throws a TypeError
\* and nothing has been logged.
C7_NullMessageThrows ==
  /\ IsGeminiSessionCall
  /\ call.opts.hasLogger
  /\ file.doc.value.messages = Some(<<GeminiUser, NullValue>>)
  /\ result.status = "throw"
  /\ result.error = "TypeError"
  /\ issues = <<>>

(***************************************************************************)
(* Repeated calls, and file-level failures.                                *)
(***************************************************************************)
WithoutTimestamps(entries) ==
  [k \in 1..Len(entries) |-> [entries[k] EXCEPT !.timestamp = 0]]

\* Every record of the file carries a timestamp of its own (a Codex record
\* without one yields no entry at all).
AllTimestamped ==
  CASE file.format = "claude" ->
         \A i \in 1..Len(file.lines):
           WellFormed(file.lines[i]) =>
             \/ IsSome(file.lines[i].value.timestamp)
             \/ IsSome(file.lines[i].value.ts)
    [] file.format = "codex" -> TRUE
    [] file.format = "gemini" ->
         (file.doc.kind = "json" /\ file.doc.value.kind = "object") =>
           LET messages == OrElse(file.doc.value.messages, <<>>)
           IN \A i \in 1..Len(messages):
                messages[i].kind = "object" => IsSome(messages[i].timestamp)

\* C8 as stated: the second of two calls on the unchanged file with the same
\* options returns the entries, timestamps included, and the total of the
\* first, whatever the clock shows at each call.
C8_ReparseIdentical ==
  pc = "reparsed" =>
    /\ result.entries = prev[1].entries
    /\ result.total = prev[1].total

\* C8 amended: the two calls agree on the outcome, on total and on every
\* field of every entry but timestamp; the timestamps agree too when every
\* record carries one or the clock has not advanced, and a timestamp that
\* differs is the clock reading of its own call.
C8_ReparseIdenticalUpToClock ==
  pc = "reparsed" =>
    /\ result.status = prev[1].status
    /\ result.total = prev[1].total
    /\ WithoutTimestamps(result.entries) = WithoutTimestamps(prev[1].entries)
    /\ (AllTimestamped \/ clock = Now0) => result.entries = prev[1].entries
    /\ \A k \in 1..Len(result.entries):
         result.entries[k].timestamp # prev[1].entries[k].timestamp =>
           /\ prev[1].entries[k].timestamp = Now0
           /\ result.entries[k].timestamp = clock

\* A record without a timestamp parsed at two clock readings: the two calls
\* return entries that differ in timestamp only.
C8_Witness ==
  /\ pc = "reparsed"
  /\ clock > Now0
  /\ Len(result.entries) >= 2
  /\ result.entries # prev[1].entries
  /\ \E k \in 1..Len(result.entries):
       result.entries[k].timestamp = prev[1].entries[k].timestamp

IsOversized(opts) ==
  IsSome(opts.maxFileSizeBytes) /\ file.size > opts.maxFileSizeBytes[1]

\* C9: when maxFileSizeBytes is given and the file is larger, each of the
\* three parse*Entries fails with the size-limit error before a record is
\* decoded or classified and before an issue is logged.
C9_OversizedRejected ==
  (pc = "called" /\ call.fn = "entries" /\ file.exists
     /\ IsOversized(call.opts)) =>
    /\ result.status = "throw"
    /\ result.error = "size"
    /\ result.decoded = 0
    /\ issues = <<>>

\* parseCodexEntries with maxFileSizeBytes below the size of a file of two
\* records: the call returns and both records have been decoded.
C9_CodexIgnoresLimit ==
  /\ pc = "called" /\ call.fn = "entries" /\ file.format = "codex"
  /\ file.exists /\ IsOversized(call.opts)
  /\ result.status = "ok"
  /\ result.decoded = 2
  /\ Len(result.entries) = 2

\* C10: the three parse*Transcript do not throw on a file-level failure: for
\* a missing file, or one larger than the maxFileSizeBytes given, the call
\* returns null and the sink holds a parse_error issue.
C10_FileFailureYieldsNull ==
  (pc = "called" /\ call.fn = "transcript"
     /\ (~file.exists \/ IsOversized(call.opts))) =>
    /\ result.status = "ok"
    /\ result.transcript = None
    /\ call.opts.hasLogger =>
         \E k \in 1..Len(issues): issues[k].issueType = "parse_error"

\* parseCodexTranscript with maxFileSizeBytes below the size of the file: a
\* transcript is returned and nothing is logged.
C10_CodexIgnoresLimit ==
  /\ pc = "called" /\ call.fn = "transcript" /\ file.format = "codex"
  /\ file.exists /\ IsOversized(call.opts)
  /\ call.opts.hasLogger
  /\ IsSome(result.transcript)
  /\ issues = <<>>

(***************************************************************************)
(* The chunked line reader.                                                *)
(***************************************************************************)
\* The whole decoded file split on newlines, each piece trimmed, the blank
\* ones dropped.
WholeFileLines ==
  LET pieces == SplitLines(file.text)
  IN SelectSeq([i \in 1..Len(pieces) |-> Trim(pieces[i])], LAMBDA l: l # <<>>)

WholeFilePairs ==
  [k \in 1..Len(WholeFileLines) |-> [line |-> WholeFileLines[k], index |-> k - 1]]

\* C11: readJsonlLines calls back once for each non-blank line of the file,
\* in file order, with the trimmed line and the indices 0, 1, 2, ...; a
\* final line without a newline is one more line; no callback starts while
\* another runs; the total returned is the number of callbacks made.
C11_CallbackPerLine ==
  /\ reader.active <= 1
  /\ \A k \in 1..Len(reader.delivered): reader.delivered[k].index = k - 1
  /\ reader.status = "returned" =>
       /\ [k \in 1..Len(reader.delivered) |-> reader.delivered[k].line]
            = WholeFileLines
       /\ reader.total = Len(reader.delivered)

\* The line "a e'" read in chunks of two bytes: the callback gets the line
\* with two U+FFFD in place of the two-byte character.
C11_GarbledLine ==
  /\ file.text = <<"a", "e'">>
  /\ file.chunkSize = 2
  /\ reader.status = "returned"
  /\ reader.total = 1
  /\ reader.delivered[1].line = <<"a", ReplacementChar, ReplacementChar>>

\* C12: whatever the chunk size (1 byte or more) and whatever the content,
\* multi-byte characters included, the (line, index) pairs delivered and the
\* total are those of the whole decoded file split on newlines, trimmed,
\* without the blank pieces.
C12_ChunkSizeIndependent ==
  reader.status = "returned" =>
    /\ reader.delivered = WholeFilePairs
    /\ reader.total = Len(WholeFilePairs)

\* A file that holds only U+00A0 and a newline, read one byte at a time: the
\* whole file has no non-blank line, yet one line is delivered.
C12_BlankLineDelivered ==
  /\ file.text = <<"nbsp", "\n">>
  /\ file.chunkSize = 1
  /\ reader.status = "returned"
  /\ WholeFilePairs = <<>>
  /\ reader.total = 1

\* C13: the handle opened by readJsonlLines is closed on every exit path
\* (end of file, an I/O error of a read, an exception of the callback, after
\* which no line is delivered any more); when the file cannot be opened the
\* call fails and the callback has not been invoked.
C13_HandleClosed ==
  /\ reader.at = "done" => reader.handle # "open"
  /\ reader.handle = "closed" => reader.at = "done"
  /\ reader.status # "running" => reader.at = "done"
  /\ reader.error = "ENOENT" =>
       /\ reader.status = "threw"
       /\ reader.handle = "none"
       /\ reader.delivered = <<>>
  /\ reader.error \in {"EIO", "callback"} =>
       /\ reader.status = "threw"
       /\ reader.handle = "closed"

\* The callback throws on the first of two lines: the handle is closed and
\* the second line is never delivered.
C13_Witness ==
  /\ reader.status = "threw"
  /\ reader.error = "callback"
  /\ reader.handle = "closed"
  /\ Len(WholeFileLines) = 2
  /\ Len(reader.delivered) = 1

(***************************************************************************)
(* A caller that parses a file of one record, the record drawn from every  *)
(* combination of the fields the classifiers read.                         *)
(***************************************************************************)
MaxBlocks == 2

\* The types of the blocks of a content array.
BlockTypes == {"text", "tool_use", "tool_result", "thinking"}

\* message.content ?? obj.content: a string (None) or an array of blocks
ClaudeContents == Optional(SeqsUpTo(BlockTypes, MaxBlocks))

ClaudeRecordTypes ==
  {"user", "assistant", "system", "summary", "file-history-snapshot",
   "progress"}

ClaudeRecords ==
  {ClaudeObj(t, r, c, Undef, ts, None):
     t \in ClaudeRecordTypes, r \in {Undef, "user", "assistant"},
     c \in ClaudeContents, ts \in Optional({1})}

CodexRecords ==
  {CodexObj(ts, t, pt, pr):
     ts \in Optional({1}),
     t \in {"session_meta", "event_msg", "response_item", "compacted"},
     pt \in {Undef, "user_message", "token_count", "message", "function_call",
             "function_call_output", "custom_tool_call",
             "custom_tool_call_output", "reasoning", "web_search_call"},
     pr \in {Undef, "user"}}
  \cup {CodexTokenSnapshots(Some(1), l, t):
          l \in Optional({5}), t \in Optional({9})}

MaxParts == 2

GeminiRecords ==
  {GeminiMessage(Undef, t, ts, c, th, tc):
     t \in {"user", "gemini", "info"}, ts \in Optional({1}),
     c \in {"", "note"}, th \in SeqsUpTo({GeminiThought(None)}, MaxParts),
     tc \in SeqsUpTo({GeminiToolCall(Undef, None, TRUE),
                      GeminiToolCall("t1", None, FALSE)}, MaxParts)}

RecordFiles ==
  {File("claude", TRUE, SMALL_FILE_THRESHOLD - 1, <<ObjectLine(r)>>, GarbageLine):
     r \in ClaudeRecords}
  \cup {File("codex", TRUE, SMALL_FILE_THRESHOLD - 1, <<ObjectLine(r)>>,
              GarbageLine): r \in CodexRecords}
  \cup {File("gemini", TRUE, SMALL_FILE_THRESHOLD, <<>>,
              ObjectLine(GeminiSession(Some(<<m>>)))): m \in GeminiRecords}

RecordOptions ==
  [offset: {None}, limit: {None}, includeRaw: BOOLEAN, hasLogger: BOOLEAN,
   maxFileSizeBytes: {None}]

InitRecords ==
  /\ file \in RecordFiles
  /\ clock = Now0
  /\ pc = "idle"
  /\ call = NoCall
  /\ result = NoCall
  /\ prev = None
  /\ issues = <<>>
  /\ pager = NoPager
  /\ reader = NoReader
  /\ logger = NoLogger

\* const logger = createSchemaLogger(); await parse*Entries(path, opts)
ParseRecord ==
  /\ pc = "idle"
  /\ \E opts \in RecordOptions:
       LET r == parseEntries(file, opts, clock)
       IN /\ call' = [fn |-> "entries", opts |-> opts]
          /\ result' = r
          /\ issues' = r.log
  /\ pc' = "called"
  /\ UNCHANGED <<file, clock, prev, pager, reader, logger>>

NextRecords == ParseRecord

SpecRecords == InitRecords /\ [][NextRecords]_vars

\* The record of the file of a finished one-record call.
TheRecord ==
  IF file.format = "gemini" THEN file.doc.value.messages[1][1]
  ELSE file.lines[1].value

IsRecordCall(format) ==
  pc = "called" /\ call.fn = "entries" /\ file.format = format

\* The records the Claude classifier decides by role: not one of the record
\* types it decides first, and user before assistant.
ClaudeByTypeAlone == {"system", "summary", "file-history-snapshot"}

ClaudeUserRole(obj) ==
  obj.type \notin ClaudeByTypeAlone /\ (obj.type = "user" \/ obj.role = "user")

ClaudeAssistantRole(obj) ==
  /\ obj.type \notin ClaudeByTypeAlone
  /\ ~ClaudeUserRole(obj)
  /\ (obj.type = "assistant" \/ obj.role = "assistant")

\* The blocks of the content array (none when the content is not an array).
BlocksOf(obj) == OrElse(obj.content, <<>>)

\* C14: the Claude classifier types a user-role record tool_result exactly
\* when its content array holds a tool_result block and user otherwise; it
\* types an assistant-role record tool_call when the array holds a tool_use
\* block (thinking blocks or not), thinking only if the content is an array
\* whose every block is a thinking block, and assistant otherwise.
C14_ClaudeClassifier ==
  IsRecordCall("claude") =>
    /\ result.status = "ok" /\ Len(result.entries) = 1
    /\ LET obj == TheRecord
           type == result.entries[1].type
           blocks == BlocksOf(obj)
           any(t) == \E i \in 1..Len(blocks): blocks[i] = t
           allThinking == IsSome(obj.content)
                          /\ \A i \in 1..Len(blocks): blocks[i] = "thinking"
       IN /\ ClaudeUserRole(obj) =>
               /\ type = "tool_result" <=> any("tool_result")
               /\ type = "user" <=> ~any("tool_result")
          /\ ClaudeAssistantRole(obj) =>
               /\ type = "tool_call" <=> any("tool_use")
               /\ type = "thinking" <=> (~any("tool_use") /\ allThinking)
               /\ type = "assistant" <=> (~any("tool_use") /\ ~allThinking)

\* An assistant record with a thinking block and a tool_use block is a tool call.
C14_Witness ==
  /\ IsRecordCall("claude")
  /\ ClaudeAssistantRole(TheRecord)
  /\ BlocksOf(TheRecord) = <<"thinking", "tool_use">>
  /\ result.entries[1].type = "tool_call"

\* What names the kind of a record in its format: obj.type for Claude,
\* type and payload.type for Codex, message.type for Gemini.
Discriminator(format, obj) ==
  IF format = "codex" THEN <<obj.type, obj.ptype>> ELSE <<obj.type>>

\* C15: in every format, when a sink is supplied, each returned entry typed
\* unknown comes with an unknown_entry_type diagnostic for the same record
\* that carries the record's original discriminator.
C15_UnknownLogged ==
  (pc = "called" /\ call.fn = "entries" /\ call.opts.hasLogger
     /\ result.status = "ok") =>
    \A i \in 1..Len(result.entries):
      result.entries[i].type = "unknown" =>
        \E k \in 1..Len(issues):
          /\ issues[k].issueType = "unknown_entry_type"
          /\ issues[k].agent = file.format
          /\ issues[k].entryIndex = Some(0)
          /\ issues[k].description = Discriminator(file.format, TheRecord)

\* A Gemini message of an unknown type that has content becomes an unknown
\* entry and nothing reaches the sink.
C15_GeminiUnknownSilent ==
  /\ IsRecordCall("gemini")
  /\ call.opts.hasLogger
  /\ result.status = "ok"
  /\ \E i \in 1..Len(result.entries): result.entries[i].type = "unknown"
  /\ issues = <<>>

\* A decoded record that carries no usable timestamp.
LacksTimestamp(format, obj) ==
  /\ obj.kind = "object"
  /\ ~IsSome(obj.timestamp)
  /\ format = "claude" => ~IsSome(obj.ts)

\* C16: when a sink is supplied, a record without a usable timestamp is
\* logged as missing_required_field under its index in every format; the
\* Claude and Gemini classifiers still emit its entry, stamped with the
\* current time, while the Codex classifier emits no entry for it and the
\* records after it are parsed as usual.
C16_MissingTimestampLogged ==
  /\ (ReadableWindowCall /\ call.opts.hasLogger /\ result.status = "ok") =>
       /\ [k \in 1..Len(result.entries) |-> result.entries[k].id]
            = ExpectedIds(call.opts)
       /\ \A i \in WindowOf(call.opts):
            (RecordLines[i].kind = "json"
               /\ LacksTimestamp(file.format, RecordLines[i].value)) =>
              /\ \E k \in 1..Len(issues):
                   issues[k] = Issue(file.format, "missing_required_field",
                                     Some(i - 1))
              /\ file.format = "claude" =>
                   \E k \in 1..Len(result.entries):
                     /\ result.entries[k].id = ExpectedId(i)
                     /\ result.entries[k].timestamp = clock
              /\ file.format = "codex" =>
                   \A k \in 1..Len(result.entries):
                     result.entries[k].id # ExpectedId(i)
  /\ (IsGeminiSessionCall /\ call.opts.hasLogger /\ result.status = "ok") =>
       LET messages == OrElse(file.doc.value.messages, <<>>)
       IN \A i \in 1..Len(messages):
            LacksTimestamp("gemini", messages[i]) =>
              /\ \E k \in 1..Len(issues):
                   issues[k] = Issue("gemini", "missing_required_field",
                                     Some(i - 1))
              /\ \A k \in 1..Len(result.entries):
                   result.entries[k].id = GeminiBaseId(messages[i], i - 1) =>
                     result.entries[k].timestamp = clock

\* A Gemini message without a timestamp: its entry carries the current time
\* and nothing reaches the sink.
C16_GeminiMissingSilent ==
  /\ IsGeminiSessionCall /\ call.opts.hasLogger /\ result.status = "ok"
  /\ file.doc.value.messages = Some(<<GeminiReply>>)
  /\ \E k \in 1..Len(result.entries):
       /\ result.entries[k].id = "gemini-msg-0"
       /\ result.entries[k].timestamp = clock
  /\ issues = <<>>

\* An entry with toolName, toolInput or toolCallId set.
HasToolField(entry) ==
  IsSome(entry.toolName) \/ IsSome(entry.toolInput) \/ IsSome(entry.toolCallId)

\* C17: for every entry any classifier produces, toolName, toolInput and
\* toolCallId are set only if the entry's type is tool_call or tool_result,
\* whatever blocks the content array of its source record holds.
C17_ToolFieldsOnlyOnToolEntries ==
  (pc = "called" /\ call.fn = "entries" /\ result.status = "ok") =>
    \A i \in 1..Len(result.entries):
      HasToolField(result.entries[i]) =>
        result.entries[i].type \in {"tool_call", "tool_result"}

\* A Claude user record whose content array holds a tool_use block (and no
\* tool_result block) is typed user and still carries the three fields.
C17_UserEntryWithToolFields ==
  /\ IsRecordCall("claude")
  /\ TheRecord.type = "user"
  /\ BlocksOf(TheRecord) = <<"text", "tool_use">>
  /\ result.entries[1].type = "user"
  /\ IsSome(result.entries[1].toolName)
  /\ IsSome(result.entries[1].toolCallId)

\* The decoded records of the well-formed lines of the window, in order.
ExpectedRaw(opts) ==
  LET idx == SelectSeq([i \in 1..Len(RecordLines) |-> i],
                       LAMBDA i: i \in WindowOf(opts) /\ WellFormed(RecordLines[i]))
  IN [k \in 1..Len(idx) |-> RecordLines[idx[k]].value]

\* C18: in the three formats, with includeRaw true every returned entry
\* carries _raw holding the decoded record it came from, and with includeRaw
\* false no returned entry carries _raw.
C18_RawOnEveryEntry ==
  /\ (pc = "called" /\ call.fn = "entries" /\ result.status = "ok"
        /\ ~call.opts.includeRaw) =>
       \A k \in 1..Len(result.entries): result.entries[k].raw = None
  /\ (ReadableWindowCall /\ result.status = "ok" /\ call.opts.includeRaw) =>
       [k \in 1..Len(result.entries) |-> result.entries[k].raw]
         = [k \in 1..Len(ExpectedRaw(call.opts)) |->
              Some(ExpectedRaw(call.opts)[k])]
  /\ (IsGeminiSessionCall /\ result.status = "ok" /\ call.opts.includeRaw) =>
       LET messages == OrElse(file.doc.value.messages, <<>>)
       IN \A k \in 1..Len(result.entries):
            \E i \in 1..Len(messages):
              /\ result.entries[k].raw = Some(messages[i])
              /\ \E j \in 1..Len(parseGeminiMessage(messages[i], i - 1, clock).entries):
                   parseGeminiMessage(messages[i], i - 1, clock).entries[j].id
                     = result.entries[k].id

\* Two Gemini messages read with includeRaw: the first entry carries the
\* whole session and the second entry carries nothing.
C18_GeminiRawOnFirstOnly ==
  /\ IsGeminiSessionCall /\ result.status = "ok" /\ call.opts.includeRaw
  /\ Len(result.entries) = 2
  /\ result.entries[1].raw = Some(file.doc.value)
  /\ result.entries[2].raw = None

(***************************************************************************)
(* A caller that asks for the metadata of a session file: a Codex session  *)
(* of messages and token_count events.                                     *)
(***************************************************************************)
\* The running totals the token_count events report.
RunningTotals == {1, 2}

CodexEvents ==
  {ObjectLine(CodexGood)}
    \cup {ObjectLine(CodexTokenCount(Some(1), t)): t \in Optional(RunningTotals)}

\* Session records: two titles, one longer than a name may be, a user
\* message and an assistant message.
ClaudeSessionLines ==
  {ObjectLine(ClaudeSummary(Text("A", NAME_LENGTH))),
   ObjectLine(ClaudeSummary(Text("B", NAME_LENGTH + 1))),
   ObjectLine(ClaudeUserMessage(Text("C", NAME_LENGTH + 1))),
   ObjectLine(ClaudeNoTimestamp)}

SummaryFiles ==
  {File("codex", TRUE, CHUNK_SIZE, ls, GarbageLine):
     ls \in SeqsUpTo(CodexEvents, MaxLines)}
  \cup {[File("claude", TRUE, CHUNK_SIZE, ls, GarbageLine) EXCEPT !.dashed = d]:
          ls \in SeqsUpTo(ClaudeSessionLines, MaxLines), d \in BOOLEAN}

SummaryOptions == [hasLogger: BOOLEAN, maxFileSizeBytes: {None}]

InitSummary ==
  /\ file \in SummaryFiles
  /\ clock = Now0
  /\ pc = "idle"
  /\ call = NoCall
  /\ result = NoCall
  /\ prev = None
  /\ issues = <<>>
  /\ pager = NoPager
  /\ reader = NoReader
  /\ logger = NoLogger

\* const logger = createSchemaLogger(); await parse*Transcript(path, opts)
Summarize ==
  /\ pc = "idle"
  /\ \E opts \in SummaryOptions:
       LET r == parseTranscript(file, opts, clock)
       IN /\ call' = [fn |-> "transcript", opts |-> opts]
          /\ result' = r
          /\ issues' = r.log
  /\ pc' = "called"
  /\ UNCHANGED <<file, clock, prev, pager, reader, logger>>

NextSummary == Summarize

SpecSummary == InitSummary /\ [][NextSummary]_vars

IsSummaryCall(format) ==
  pc = "called" /\ call.fn = "transcript" /\ file.format = format

\* The running totals of the token_count events of the file, in file order.
TokenSnapshots ==
  LET events == SelectSeq(file.lines,
                          LAMBDA l: /\ l.value.type = "event_msg"
                                    /\ l.value.ptype = "token_count"
                                    /\ IsSome(l.value.total))
  IN [k \in 1..Len(events) |-> events[k].value.total[1]]

RECURSIVE SumOnce(_, _)
\* The sum of the snapshots that differ from the snapshot before them.
SumOnce(snapshots, last) ==
  IF snapshots = <<>> THEN 0
  ELSE (IF Some(snapshots[1]) = last THEN 0 ELSE snapshots[1])
       + SumOnce(Tail(snapshots), Some(snapshots[1]))

\* C19: in parseCodexTranscript a token_count event whose running total is
\* that of the token_count event before it adds nothing to stats.tokens,
\* while every event is still classified and counted in stats.entryTypes.
C19_SameTotalCountedOnce ==
  IsSummaryCall("codex") =>
    /\ IsSome(result.transcript)
    /\ result.transcript[1].stats.tokens.total = SumOnce(TokenSnapshots, None)
    /\ \A t \in EntryTypes:
         result.transcript[1].stats.entryTypes[t] =
           Cardinality({i \in 1..Len(file.lines):
                          CodexDetectEntryType(file.lines[i].value.type,
                                               file.lines[i].value) = t})

\* Two token_count events with the running total 1: both are counted as
\* system entries and stats.tokens.total is 2.
C19_SameTotalCountedTwice ==
  /\ IsSummaryCall("codex")
  /\ file.lines = <<ObjectLine(CodexTokenCount(Some(1), Some(1))),
                    ObjectLine(CodexTokenCount(Some(1), Some(1)))>>
  /\ result.transcript[1].stats.entryTypes["system"] = 2
  /\ result.transcript[1].stats.tokens.total = 2

\* The session records of one kind, in file order.
SessionRecords(type) ==
  SelectSeq(file.lines, LAMBDA l: l.value.type = type)

\* C20: the name parseClaudeTranscript returns is the text of the last
\* summary record of the stream cut to 60 characters when the stream holds
\* a summary record at any position; otherwise the text of the first user
\* message cut to 60 characters; otherwise the file name.
C20_NamePreference ==
  IsSummaryCall("claude") =>
    /\ IsSome(result.transcript)
    /\ result.transcript[1].name =
         IF SessionRecords("summary") # <<>>
           THEN LET last == SessionRecords("summary")[Len(SessionRecords("summary"))]
                IN [id |-> last.value.summary[1].id,
                    len |-> Min(last.value.summary[1].len, 60)]
         ELSE IF SessionRecords("user") # <<>>
           THEN [id |-> SessionRecords("user")[1].value.text[1].id,
                 len |-> Min(SessionRecords("user")[1].value.text[1].len, 60)]
         ELSE FileName

\* A session of one user message and no summary, in a directory whose name
\* does not start with a dash: the name is the file name.
C20_UserMessageIgnored ==
  /\ IsSummaryCall("claude")
  /\ ~file.dashed
  /\ file.lines = <<ObjectLine(ClaudeUserMessage(Text("C", NAME_LENGTH + 1)))>>
  /\ result.transcript[1].name = FileName

(***************************************************************************)
(* A caller that asks for the metadata of a Claude session that may have a *)
(* subagents directory beside it, and then for the metadata of one of the  *)
(* files of that directory by its own path.                                *)
(***************************************************************************)
MaxChildren == 2

\* A file of a subagents directory with one good record.
AgentFile(base) ==
  [File("claude", TRUE, CHUNK_SIZE, <<ObjectLine(ClaudeGood)>>, GarbageLine)
     EXCEPT !.base = base]

\* What a subagents directory may hold: a session, a session with a
\* subagents directory of its own, a session whose only line is null
\* (its summary is null) and a file that is not a .jsonl file.
SubagentDirEntries ==
  {AgentFile("agent-1"),
   [AgentFile("agent-2") EXCEPT !.children = Some(<<AgentFile("agent-3")>>)],
   [AgentFile("agent-4") EXCEPT !.lines = <<NullLine>>],
   [AgentFile("notes") EXCEPT !.jsonl = FALSE]}

\* The directories and the names a session file is given: absolute or
\* relative paths, with or without a component named subagents.
SessionDirs == {<<"", "p">>, <<>>, <<"subagents">>, <<"", "subagents">>}
SessionNames == {"session", "subagents"}

SessionFiles ==
  {[AgentFile(b) EXCEPT !.dir = d, !.children = cs]:
     b \in SessionNames, d \in SessionDirs,
     cs \in Optional({c \in SeqsUpTo(SubagentDirEntries, MaxChildren):
                        \A i, j \in 1..Len(c): c[i].base = c[j].base => i = j})}

SubagentOptions ==
  [hasLogger: BOOLEAN, maxFileSizeBytes: {None}, scanSubagents: BOOLEAN]

InitSubagents ==
  /\ file \in SessionFiles
  /\ clock = Now0
  /\ pc = "idle"
  /\ call = NoCall
  /\ result = NoCall
  /\ prev = None
  /\ issues = <<>>
  /\ pager = NoPager
  /\ reader = NoReader
  /\ logger = NoLogger

\* await parseClaudeTranscript(sessionPath, { scanSubagents })
SummarizeSession ==
  /\ pc = "idle"
  /\ \E opts \in SubagentOptions:
       LET r == parseClaudeTranscript(file, opts, clock)
       IN /\ call' = [fn |-> "transcript", opts |-> opts]
          /\ result' = r
          /\ issues' = r.log
  /\ pc' = "called"
  /\ UNCHANGED <<file, clock, prev, pager, reader, logger>>

\* await parseClaudeTranscript(subagentPath, { scanSubagents })
SummarizeSubagent ==
  /\ pc = "called"
  /\ IsSome(file.children)
  /\ \E k \in 1..Len(file.children[1]), opts \in SubagentOptions:
       LET r == parseClaudeTranscript(SubagentFile(file, file.children[1][k]),
                                      opts, clock)
       IN /\ file.children[1][k].jsonl
          /\ call' = [fn |-> "subagent", opts |-> opts, child |-> k]
          /\ result' = r
          /\ issues' = issues \o r.log
  /\ prev' = Some(result)
  /\ pc' = "direct"
  /\ UNCHANGED <<file, clock, pager, reader, logger>>

NextSubagents == SummarizeSession \/ SummarizeSubagent

SpecSubagents == InitSubagents /\ [][NextSubagents]_vars

\* C21: for every Claude subagent file, the parentTranscriptId stamped on it
\* when it is discovered through its parent's parseClaudeTranscript call is
\* the parentTranscriptId reconstructed when the file is parsed directly by
\* its path, and both are the id of the parent transcript.
C21_SameParentLinkage ==
  (pc = "direct" /\ IsSome(result.transcript) /\ IsSome(prev[1].transcript)
     /\ IsSome(prev[1].transcript[1].subagents)) =>
    \A k \in 1..Len(prev[1].transcript[1].subagents[1]):
      LET found == prev[1].transcript[1].subagents[1][k]
      IN found.path = result.transcript[1].path =>
           /\ found.parentTranscriptId = Some(prev[1].transcript[1].id)
           /\ result.transcript[1].parentTranscriptId = found.parentTranscriptId

\* The session /p/subagents.jsonl with the subagent file
\* /p/subagents/subagents/agent-1.jsonl: found through its parent the file is
\* stamped claude:subagents, parsed by its path it names claude:p.
C21_ParentNamedSubagents ==
  /\ pc = "direct"
  /\ file.dir = <<"", "p">> /\ file.base = "subagents"
  /\ IsSome(prev[1].transcript[1].subagents)
  /\ prev[1].transcript[1].subagents[1][1].path = result.transcript[1].path
  /\ prev[1].transcript[1].subagents[1][1].parentTranscriptId
       = Some("claude:subagents")
  /\ result.transcript[1].parentTranscriptId = Some("claude:p")

GeminiExpandsWith(main) ==
  LET m == TheRecord
      es == result.entries
      nT == Len(m.thoughts)
      \* the position of the tool_call entry of tool call j
      at(j) == main + nT + j
               + Cardinality({i \in 1..(j - 1): m.toolCalls[i].hasResult})
      n == main + nT + Len(m.toolCalls)
           + Cardinality({i \in 1..Len(m.toolCalls): m.toolCalls[i].hasResult})
  IN /\ result.status = "ok"
     /\ result.total = n /\ Len(es) = n
     /\ main = 1 => /\ es[1].type = GeminiMessageType(m)
                    /\ es[1].id = "gemini-msg-0"
     /\ \A i \in 1..nT:
          /\ es[main + i].type = "thinking"
          /\ es[main + i].id = "gemini-msg-0-thought-" \o ToString(i - 1)
     /\ \A j \in 1..Len(m.toolCalls):
          /\ es[at(j)].type = "tool_call"
          /\ IsSome(es[at(j)].toolCallId)
          /\ m.toolCalls[j].hasResult =>
               /\ es[at(j) + 1].type = "tool_result"
               /\ es[at(j) + 1].toolCallId = es[at(j)].toolCallId
          /\ (~m.toolCalls[j].hasResult /\ at(j) < n) =>
               es[at(j) + 1].type = "tool_call"

MaxStored == 2

\* The maxIssues a logger is created with: small ones and the default.
MaxIssuesChoices == 0..MaxStored \cup {DEFAULT_MAX_ISSUES}

SharedFiles ==
  {File("claude", TRUE, SMALL_FILE_THRESHOLD - 1, ls, GarbageLine):
     ls \in SeqsUpTo(ClaudeLineKinds, MaxLines)}

\* { schemaLogger: logger }
LoggedOptions ==
  [offset |-> None, limit |-> None, includeRaw |-> FALSE, hasLogger |-> TRUE,
   maxFileSizeBytes |-> None]

InitShared ==
  /\ file \in SharedFiles
  /\ clock = Now0
  /\ pc = "idle"
  /\ call = NoCall
  /\ result = NoCall
  /\ prev = None
  /\ issues = <<>>
  /\ pager = NoPager
  /\ reader = NoReader
  /\ logger \in {NewLogger(n): n \in MaxIssuesChoices}

\* await parse*Entries(path, { schemaLogger: logger });
\* count = logger.getIssues().length
ParseLogged ==
  /\ pc \in {"idle", "called"}
  /\ Len(logger.counts) < 2
  /\ LET r == parseEntries(file, LoggedOptions, clock)
     IN /\ call' = [fn |-> "entries", opts |-> LoggedOptions]
        /\ result' = r
        /\ issues' = r.log
        /\ logger' = LoggerRead(LoggerLogAll(logger, r.log))
  /\ pc' = "called"
  /\ UNCHANGED <<file, clock, prev, pager, reader>>

\* logger.clear()
ClearLogger ==
  /\ pc = "called"
  /\ logger' = LoggerClear(logger)
  /\ pc' = "idle"
  /\ UNCHANGED <<file, clock, call, result, prev, issues, pager, reader>>

NextShared == ParseLogged \/ ClearLogger

SpecShared == InitShared /\ [][NextShared]_vars

\* C24 as stated: every issue logged since the last clear is in getIssues(),
\* in logging order, and after the second of two parses of the same file
\* with one logger there are twice as many issues as after the first.
C24_AppendOnly ==
  /\ logger.issues = logger.history
  /\ Len(logger.counts) = 2 => logger.counts[2] = 2 * logger.counts[1]

\* C24 amended: the same, as long as no more than maxIssues issues have been
\* logged since the last clear.
C24_AppendOnlyUpToMaxIssues ==
  Len(logger.history) <= logger.maxIssues =>
    /\ logger.issues = logger.history
    /\ Len(logger.counts) = 2 => logger.counts[2] = 2 * logger.counts[1]

\* Two parses of a file with two bad lines: two issues, then four.
C24_Witness ==
  /\ logger.counts = <<2, 4>>
  /\ logger.maxIssues = DEFAULT_MAX_ISSUES
  /\ Len(logger.issues) = 4

\* C25: the Codex classifier takes the token usage of a token_count event
\* from its incremental snapshot whenever it has one, and from its
\* running-total snapshot only when it has none.
C25_IncrementalPreferred ==
  (IsRecordCall("codex") /\ TheRecord.type = "event_msg"
     /\ TheRecord.ptype = "token_count" /\ IsSome(TheRecord.timestamp)) =>
    /\ result.status = "ok" /\ Len(result.entries) = 1
    /\ result.entries[1].tokens =
         IF IsSome(TheRecord.last) THEN TheRecord.last ELSE TheRecord.total

\* A token_count event with the incremental usage 5 and the running total
\* 9: the entry carries 9.
C25_RunningTotalTaken ==
  /\ IsRecordCall("codex")
  /\ TheRecord = CodexTokenSnapshots(Some(1), Some(5), Some(9))
  /\ result.entries[1].tokens = Some(9)

\* C26: parseCodexTranscript and parseClaudeTranscript visit every non-blank
\* record of the file exactly once, whatever the size of the file:
\* entryCount is the number of non-blank lines (the total of the pagination
\* call on the same file) and stats counts every well-formed record once.
C26_EveryRecordOnce ==
  (pc = "called" /\ call.fn = "transcript" /\ IsJsonl /\ file.exists
     /\ (file.format = "claude" => WithinSizeLimit(call.opts))) =>
    /\ IsSome(result.transcript)
    /\ result.transcript[1].entryCount = Len(RecordLines)
    /\ result.transcript[1].entryCount
         = parseEntries(file, PageOptions(0, 0), clock).total
    /\ \A t \in EntryTypes:
         result.transcript[1].stats.entryTypes[t] =
           Cardinality({i \in 1..Len(RecordLines):
              /\ WellFormed(RecordLines[i])
              /\ t = IF file.format = "claude"
                       THEN ClaudeDetectEntryType(RecordLines[i].value)
                       ELSE CodexDetectEntryType(RecordLines[i].value.type,
                                                 RecordLines[i].value)})

\* A Codex file of one record and more than 128 KB: entryCount is the
\* estimate fileSize / 500.
C26_CodexCountEstimated ==
  /\ pc = "called" /\ call.fn = "transcript" /\ file.format = "codex"
  /\ file.lines = <<ObjectLine(CodexGood)>>
  /\ file.size > CHUNK_SIZE * 2
  /\ result.transcript[1].entryCount = CodexEstimatedCount(file.size)
  /\ result.transcript[1].entryCount > 1

\* C27: on the streaming path of parseClaudeEntries and in parseCodexEntries
\* the classifier runs only on records of the window: it runs at most once
\* per record of the window, every entry returned is the entry of a record
\* of the window, and every issue logged carries the index of a record of
\* the window.
C27_ClassifierInsideWindow ==
  (pc = "called" /\ call.fn = "entries" /\ IsJsonl /\ file.exists
     /\ result.status = "ok"
     /\ (file.format = "claude" => file.size >= SMALL_FILE_THRESHOLD)) =>
    /\ result.decoded <= Cardinality(WindowOf(call.opts))
    /\ \A k \in 1..Len(result.entries):
         \E i \in WindowOf(call.opts):
           WellFormed(RecordLines[i]) /\ result.entries[k].id = ExpectedId(i)
    /\ \A k \in 1..Len(result.log):
         /\ IsSome(result.log[k].entryIndex)
         /\ result.log[k].entryIndex[1] + 1 \in WindowOf(call.opts)

\* parseCodexEntries with offset 0 and limit -1 on a file of two records:
\* lines.slice(0, -1) holds the first record, which is classified and
\* returned, while the window [0, 0) holds no record.
C27_CodexClassifiesOutsideWindow ==
  /\ pc = "called" /\ call.fn = "entries" /\ file.format = "codex"
  /\ file.lines = <<ObjectLine(CodexGood), ObjectLine(CodexGood)>>
  /\ call.opts.offset = Some(0) /\ call.opts.limit = Some(-1)
  /\ WindowOf(call.opts) = {}
  /\ result.status = "ok" /\ result.decoded = 1
  /\ Len(result.entries) = 1
  /\ result.entries[1].id = "codex-0"

(***************************************************************************)
(* parseClaudeTranscriptFull: the whole file as extended entries, with the *)
(* tool calls of its tool_use blocks and their links to tool_result        *)
(* entries.  A block of a content array is its type and its id (the id of  *)
(* a tool_use block, the tool_use_id of a tool_result block).              *)
(***************************************************************************)
ToolBlock(type, id) == [type |-> type, id |-> id]

\* A record whose message.content is the array of the given blocks.
ClaudeToolRecord(role, blocks) ==
  [blocks |-> blocks] @@
    ClaudeObj(role, role, Some([i \in 1..Len(blocks) |-> blocks[i].type]),
              Undef, Some(1), None)

\* content.find(block => block.type === type)
FindBlock(blocks, type) ==
  blocks[CHOOSE i \in 1..Len(blocks):
           /\ blocks[i].type = type
           /\ \A j \in 1..(i - 1): blocks[j].type # type]

\* extractToolInfo(obj).toolCallId, with the ids of the blocks.
ClaudeToolCallId(obj) ==
  IF ~IsSome(obj.content) THEN Undef
  ELSE IF HasBlock(obj.content[1], "tool_use")
    THEN FindBlock(obj.blocks, "tool_use").id
  ELSE IF HasBlock(obj.content[1], "tool_result")
    THEN FindBlock(obj.blocks, "tool_result").id
  ELSE Undef

\* One tool call per tool_use block, in block order, status "unknown".
extractExtendedToolCalls(obj, entryId) ==
  LET uses == SelectSeq(obj.blocks, LAMBDA b: b.type = "tool_use")
  IN [k \in 1..Len(uses) |->
        [id |-> IF uses[k].id # Undef THEN uses[k].id ELSE entryId \o "-tool",
         entryId |-> entryId, status |-> "unknown", resultEntryId |-> None]]

\* A line that does not decode, or decodes to null, gives no entry and a
\* parse_error issue; the function does not log anything else.
parseClaudeEntryExtended(line, index, now, hasLogger) ==
  LET parsed == JSON_parse(line)
      obj == parsed.value
      entryId == ClaudeEntryId(obj, index)
  IN IF ~parsed.ok \/ obj.kind = "null"
       THEN [entry |-> None, toolCalls |-> <<>>,
             log |-> Log(hasLogger, Issue("claude", "parse_error", Some(index)))]
       ELSE [entry |-> Some([id |-> entryId, sequenceIndex |-> index,
                             timestamp |-> OrElse(ClaudeSourceTimestamp(obj), now),
                             type |-> ClaudeDetectEntryType(obj),
                             agent |-> "claude",
                             toolCallId |-> ClaudeToolCallId(obj)]),
             toolCalls |-> IF IsSome(obj.content)
                             THEN extractExtendedToolCalls(obj, entryId)
                             ELSE <<>>,
             log |-> <<>>]

\* toolCallById.get(id): the last tool call pushed with that id (0: none).
ToolCallById(toolCalls, id) ==
  LET at == {k \in 1..Len(toolCalls): toolCalls[k].id = id}
  IN IF at = {} THEN 0 ELSE CHOOSE k \in at: \A j \in at: j <= k

\* The loop over the entries that runs after every line has been read: each
\* tool_result entry with a toolCallId writes its id into the tool call the
\* map holds for it; a later entry overwrites an earlier one.
LinkToolResults(entries, toolCalls) ==
  [k \in 1..Len(toolCalls) |->
     LET from == {e \in 1..Len(entries):
                    /\ entries[e].type = "tool_result"
                    /\ entries[e].toolCallId # Undef
                    /\ ToolCallById(toolCalls, entries[e].toolCallId) = k}
     IN IF from = {} THEN toolCalls[k]
        ELSE [toolCalls[k] EXCEPT
                !.resultEntryId =
                  Some(entries[CHOOSE e \in from: \A d \in from: d <= e].id),
                !.status = "success"]]

parseClaudeTranscriptFull(f, now, hasLogger) ==
  IF ~f.exists
    THEN [fn |-> "full", entries |-> <<>>, toolCalls |-> <<>>, log |-> <<>>,
          schemaIssues |-> <<Issue("claude", "parse_error", None)>>,
          stats |-> [totalEntries |-> 0, parsedEntries |-> 0,
                     skippedEntries |-> 0, toolCallCount |-> 0]]
    ELSE
      LET lines == NonBlankLines(f.lines)
          outs == [i \in 1..Len(lines) |->
                     parseClaudeEntryExtended(lines[i], i - 1, now, hasLogger)]
          entries == FlattenSeq([i \in 1..Len(outs) |-> outs[i].entry])
          toolCalls == FlattenSeq([i \in 1..Len(outs) |-> outs[i].toolCalls])
      IN [fn |-> "full", entries |-> entries,
          toolCalls |-> LinkToolResults(entries, toolCalls),
          log |-> FlattenSeq([i \in 1..Len(outs) |-> outs[i].log]),
          schemaIssues |-> <<>>,
          stats |-> [totalEntries |-> Len(lines),
                     parsedEntries |-> Len(entries),
                     skippedEntries |-> Len(lines) - Len(entries),
                     toolCallCount |-> Len(toolCalls)]]

\* Sessions of tool calls and tool results under two ids, in any order.
ToolLines ==
  {ObjectLine(ClaudeToolRecord("assistant", <<ToolBlock("tool_use", id)>>)):
     id \in {"t1", "t2"}}
  \cup {ObjectLine(ClaudeToolRecord("user", <<ToolBlock("tool_result", id)>>)):
          id \in {"t1", "t2"}}
  \cup {ObjectLine(ClaudeToolRecord("user", <<>>)), GarbageLine}

FullFiles ==
  {File("claude", TRUE, SMALL_FILE_THRESHOLD - 1, ls, GarbageLine):
     ls \in SeqsUpTo(ToolLines, MaxLines)}
  \cup {File("claude", FALSE, 0, <<>>, GarbageLine)}

InitFull ==
  /\ file \in FullFiles
  /\ clock = Now0
  /\ pc = "idle"
  /\ call = NoCall
  /\ result = NoCall
  /\ prev = None
  /\ issues = <<>>
  /\ pager = NoPager
  /\ reader = NoReader
  /\ logger = NoLogger

\* await parseClaudeTranscriptFull(path, { schemaLogger })
ParseFull ==
  /\ pc = "idle"
  /\ \E hasLogger \in BOOLEAN:
       LET r == parseClaudeTranscriptFull(file, clock, hasLogger)
       IN /\ call' = [fn |-> "full", opts |-> [hasLogger |-> hasLogger]]
          /\ result' = r
          /\ issues' = r.log
  /\ pc' = "called"
  /\ UNCHANGED <<file, clock, prev, pager, reader, logger>>

NextFull == ParseFull

SpecFull == InitFull /\ [][NextFull]_vars

\* The position in result.entries of the entry with the given id (0: none).
EntryAt(id) ==
  IF \E e \in 1..Len(result.entries): result.entries[e].id = id
    THEN CHOOSE e \in 1..Len(result.entries): result.entries[e].id = id
    ELSE 0

\* C28: in parseClaudeTranscriptFull a tool call is linked (resultEntryId
\* set, status success) only by a tool_result entry with the same id that
\* comes after the entry of the tool call; a tool_result whose tool_use
\* comes later, or never, leaves every tool call unlinked.
C28_LinkOnlyToEarlierCall ==
  (pc = "called" /\ call.fn = "full") =>
    \A k \in 1..Len(result.toolCalls):
      LET toolCall == result.toolCalls[k]
      IN IF IsSome(toolCall.resultEntryId) \/ toolCall.status = "success"
           THEN /\ toolCall.status = "success"
                /\ IsSome(toolCall.resultEntryId)
                /\ EntryAt(toolCall.resultEntryId[1]) > 0
                /\ LET entry == result.entries[EntryAt(toolCall.resultEntryId[1])]
                   IN /\ entry.type = "tool_result"
                      /\ entry.toolCallId = toolCall.id
                      /\ EntryAt(toolCall.entryId) < EntryAt(entry.id)
           ELSE toolCall.status = "unknown"

\* A tool_result for t1 on the first line and the tool_use t1 on the second:
\* the tool call is linked to the entry before it.
C28_LinkedToLaterCall ==
  /\ pc = "called" /\ call.fn = "full"
  /\ file.lines =
       <<ObjectLine(ClaudeToolRecord("user", <<ToolBlock("tool_result", "t1")>>)),
         ObjectLine(ClaudeToolRecord("assistant", <<ToolBlock("tool_use", "t1")>>))>>
  /\ Len(result.toolCalls) = 1
  /\ result.toolCalls[1].entryId = "claude-1"
  /\ result.toolCalls[1].resultEntryId = Some("claude-0")
  /\ result.toolCalls[1].status = "success"

\* C29: after any sequence of log and clear calls on a logger created with
\* maxIssues = N, getIssues() holds at most N issues, and they are the most
\* recently logged issues since the last clear, in logging order.
C29_NewestKept ==
  LET n == Min(logger.maxIssues, Len(logger.history))
  IN /\ Len(logger.issues) <= logger.maxIssues
     /\ logger.issues =
          SubSeq(logger.history, Len(logger.history) - n + 1,
                 Len(logger.history))

\* A logger of two issues after four log calls: the first two are gone.
C29_OldestEvicted ==
  /\ logger.maxIssues = 2
  /\ Len(logger.history) = 4
  /\ Len(logger.issues) = 2
  /\ logger.issues[1].id = 3 /\ logger.issues[2].id = 4

\* C30: every entry the Claude classifier types thinking comes from a record
\* whose content array holds at least one thinking block, and an assistant
\* record whose content array is empty is typed assistant.
C30_ThinkingHasThinkingBlock ==
  (IsRecordCall("claude") /\ result.status = "ok"
     /\ Len(result.entries) = 1) =>
    /\ result.entries[1].type = "thinking" =>
         /\ IsSome(TheRecord.content)
         /\ HasBlock(TheRecord.content[1], "thinking")
    /\ (ClaudeAssistantRole(TheRecord) /\ TheRecord.content = Some(<<>>)) =>
         result.entries[1].type = "assistant"

\* An assistant record with content [] is typed thinking.
C30_EmptyContentTypedThinking ==
  /\ IsRecordCall("claude")
  /\ TheRecord.type = "assistant" /\ TheRecord.role = "assistant"
  /\ TheRecord.content = Some(<<>>)
  /\ Len(result.entries) = 1
  /\ result.entries[1].type = "thinking"

====
